---- MODULE Spec2Model ----
(***************************************************************************)
(* Signal engine of the fraud risk-assessment backend                      *)
(* (src/backend/app/services/signals).                                     *)
(*                                                                         *)
(* Numbers are exact decimals held as integers:                            *)
(*   score       in tenths      (35.0 -> 350, 7.5 -> 75)                   *)
(*   weight      in tenths      (1.2  -> 12)                               *)
(*   confidence  in hundredths  (0.85 -> 85)                               *)
(*   amounts     in whole currency units                                   *)
(* The Python code computes in binary floating point; the model computes   *)
(* the same expressions over exact decimals.                               *)
(*                                                                         *)
(* A text is a sequence of sentences (tokens), each rendered as            *)
(* "<sentence>. ":                                                         *)
(*   [kind |-> "word", word |-> w]    the sentence  w                      *)
(*   [kind |-> "paid", amount |-> a]  the sentence  paid $a  (a written    *)
(*                                    with thousands separators)           *)
(*   [kind |-> "bid",  amount |-> a]  the sentence  Bid: $a                *)
(* The regular expressions of the extractors never match across the ". "   *)
(* between two sentences of this alphabet, so every extractor is modelled  *)
(* by what its patterns match in each sentence, pattern by pattern.        *)
(***************************************************************************)
EXTENDS Integers, Sequences, FiniteSets, TLC

VARIABLES
    KEYWORD_CATEGORIES, \* keywords.py: module-level table, category -> inner dict
    instances,          \* KeywordDetector objects built outside an engine
    engineBuilt,        \* a SignalEngine has been constructed
    detectors,          \* SignalEngine.detectors
    requested,          \* constructor arguments the engine's detectors were built from
    callCtx,            \* AnalysisContext as the caller passed it to analyze()
    ctxAfter,           \* the caller's AnalysisContext object after analyze() returned
    lastRes,            \* AggregatedRiskResult of the last analyze()
    lastOp,             \* the operation that produced this state
    pinned,             \* <<context, result>> of an earlier analyze() call (0 or 1 entry)
    calls,              \* concurrent analyze() calls in flight: id -> local frame
    analysis_jobs,      \* the backend's /analysis_jobs table, rows in insertion order
    reply,              \* the last job call: its arguments, the backend's answer, its outcome
    bid_amounts,        \* the amounts of a list of extracted bids
    bid_analysis,       \* what detect_bid_patterns returned for them
    cases,              \* the backend's /cases table, rows in insertion order
    tasks,              \* queue_analysis calls and the background runs they start
    clock,              \* what time.time() returns
    _hits,              \* RateLimiter._hits: the queue of accepted times of each key
    checks              \* the calls of RateLimiter.check: key, now, and how far each got

vars == <<KEYWORD_CATEGORIES, instances, engineBuilt, detectors, requested,
          callCtx, ctxAfter, lastRes, lastOp, pinned, calls, analysis_jobs, reply,
          bid_amounts, bid_analysis, cases, tasks, clock, _hits, checks>>

----------------------------------------------------------------------------
(* Bounds of the model *)

MaxTextLen == 2              \* sentences per text
MaxInstances == 1            \* KeywordDetector objects built outside the engine
MaxShortTextLen == 1         \* sentences per text of a repeated or concurrent call
MaxJobs == 2                 \* rows of the analysis job table
MaxBids == 5                 \* bids in a list
MaxSplitAmounts == 6         \* pre-extracted amounts of an invoice review
MaxMoved == 6                \* amounts of a ledger moved from one leading digit to another
MaxQueued == 2               \* calls of queue_analysis
MaxChecks == 4               \* calls of RateLimiter.check
MaxClock == 3                \* seconds the clock runs

----------------------------------------------------------------------------
(* Generic helpers *)

Range(s) == {s[i] : i \in 1..Len(s)}

RECURSIVE SumSeq(_)
SumSeq(s) == IF s = <<>> THEN 0 ELSE Head(s) + SumSeq(Tail(s))

RECURSIVE SumSet(_)
SumSet(S) == IF S = {} THEN 0
             ELSE LET x == CHOOSE y \in S : TRUE IN x + SumSet(S \ {x})

Min2(a, b) == IF a <= b THEN a ELSE b
Max2(a, b) == IF a >= b THEN a ELSE b

MaxOfSeq(s) == CHOOSE x \in Range(s) : \A y \in Range(s) : y <= x
MinOfSeq(s) == CHOOSE x \in Range(s) : \A y \in Range(s) : x <= y

Count(s, x) == Cardinality({i \in 1..Len(s) : s[i] = x})

\* Python sorted() on a list of numbers (ascending).
RECURSIVE InsertAsc(_, _)
InsertAsc(s, x) ==
    IF s = <<>> THEN <<x>>
    ELSE IF x < Head(s) THEN <<x>> \o s
    ELSE <<Head(s)>> \o InsertAsc(Tail(s), x)

RECURSIVE sorted(_)
sorted(s) == IF s = <<>> THEN <<>>
             ELSE InsertAsc(sorted(SubSeq(s, 1, Len(s) - 1)), s[Len(s)])

\* sorted(set(s)): ascending, duplicates removed.
RECURSIVE SortedSet(_)
SortedSet(S) == IF S = {} THEN <<>>
                ELSE LET m == CHOOSE x \in S : \A y \in S : x <= y
                     IN <<m>> \o SortedSet(S \ {m})

\* int(x) of the rational n/d, d > 0: truncation toward zero.
IntTrunc(n, d) == IF n >= 0 THEN n \div d ELSE 0 - ((0 - n) \div d)

\* round(n/d) to the nearest integer, halves to the even neighbour, d > 0, n >= 0.
RoundHalfEven(n, d) ==
    LET q == n \div d
        r == n % d
    IN IF 2 * r < d THEN q
       ELSE IF 2 * r > d THEN q + 1
       ELSE IF q % 2 = 0 THEN q ELSE q + 1

RECURSIVE LeadingDigit(_)
LeadingDigit(n) == IF n < 10 THEN n ELSE LeadingDigit(n \div 10)

\* First comma-separated group of n written with thousands separators.
RECURSIVE LeadingGroup(_)
LeadingGroup(n) == IF n < 1000 THEN n ELSE LeadingGroup(n \div 1000)

----------------------------------------------------------------------------
(* base.py *)

SignalResult(name, score, weight, indicators, confidence) ==
    [detector_name |-> name, score |-> score, weight |-> weight,
     indicators |-> indicators, confidence |-> confidence]

AnalysisContext(text, amounts, dates) ==
    [text |-> text, numbers |-> <<>>, amounts |-> amounts, dates |-> dates,
     entities |-> <<>>, relationships |-> <<>>, metadata |-> <<>>]

\* BaseDetector.__init__: the weight argument when one is given (has_weight),
\* else the class's default_weight.  No check of the value is made.
BaseDetectorInit(arg, default_weight) ==
    IF arg.has_weight THEN arg.weight ELSE default_weight

\* BaseDetector._make_result: score clamped to [0, 100].
make_result(self, score, indicators, confidence) ==
    SignalResult(self.name, Min2(Max2(score, 0), 1000), self.weight,
                 indicators, confidence)

\* What one detect() call leaves behind: the value returned (or the fact that
\* it raised), and the objects it could reach: the caller's context, the
\* detector itself and the module-level keyword table.
Returned(result, context, self, shared) ==
    [raised |-> FALSE, result |-> result, context |-> context,
     self |-> self, shared |-> shared]

\* result is a placeholder here: a call that raises returns nothing.
Raised(context, self, shared) ==
    [raised |-> TRUE, result |-> SignalResult(self.name, 0, self.weight, <<>>, 0),
     context |-> context, self |-> self, shared |-> shared]

NoCategories == <<>>

Detector(name, weight, min_numbers, min_amounts, thresholds, categories) ==
    [name |-> name, weight |-> weight, min_numbers |-> min_numbers,
     min_amounts |-> min_amounts, thresholds |-> thresholds,
     categories |-> categories]

----------------------------------------------------------------------------
(* Sentences and what the extractors' patterns match in them *)

HasDollarAmount(tok) == tok.kind \in {"paid", "bid"}

\* Words of a sentence, lower-cased.
TokenWords(tok) ==
    IF tok.kind = "word" THEN {tok.word}
    ELSE IF tok.kind = "paid" THEN {"paid"}
    ELSE {"bid"}

DollarAmounts(text) ==
    LET toks == SelectSeq(text, HasDollarAmount)
    IN [i \in 1..Len(toks) |-> toks[i].amount]

----------------------------------------------------------------------------
(* benford.py *)

BENFORD_EXPECTED == <<301, 176, 125, 97, 79, 67, 58, 51, 46>>   \* thousandths

\* Numbers of the text with the commas removed; those of at least two
\* digits give their first digit.
extract_leading_digits(text) ==
    LET nums == SelectSeq(DollarAmounts(text), LAMBDA a : a >= 10)
    IN [i \in 1..Len(nums) |-> LeadingDigit(nums[i])]

DigitCounts(leading_digits) == [d \in 1..9 |-> Count(leading_digits, d)]

\* 9000 * n * mean_absolute_deviation(observed_pct, BENFORD_EXPECTED)
MadScaled(counts, n) ==
    LET dev(d) == IF 1000 * counts[d] >= BENFORD_EXPECTED[d] * n
                  THEN 1000 * counts[d] - BENFORD_EXPECTED[d] * n
                  ELSE BENFORD_EXPECTED[d] * n - 1000 * counts[d]
    IN SumSeq([d \in 1..9 |-> dev(d)])

\* chi_squared_statistic(observed_counts, BENFORD_EXPECTED, n) > t/100.
\* With exp_d = e_d*n/1000 and sum(e_d) = 1000 the statistic equals
\* (1000/n) * sum(c_d^2 / e_d) - n; the sum is taken to five decimals.
ChiSquaredExceeds(counts, n, t) ==
    SumSeq([d \in 1..9 |-> (100000 * counts[d] * counts[d]) \div BENFORD_EXPECTED[d]])
        > 100 * n * n + n * t

BenfordDetectorInit(arg) ==
    Detector("benford", BaseDetectorInit(arg, 12), arg.min_numbers, 0, <<>>,
             NoCategories)

\* Variant: a sample of exactly min_numbers digits is still too small.
BenfordDetectorDetectStrict(self, context, shared) ==
    LET fromAmounts == SelectSeq(context.amounts, LAMBDA a : a >= 10)
        leading_digits ==
            extract_leading_digits(context.text)
            \o [i \in 1..Len(fromAmounts) |-> LeadingDigit(fromAmounts[i])]
        n == Len(leading_digits)
        counts == DigitCounts(leading_digits)
        mad == MadScaled(counts, n)
        full == <<"sample_size", "mean_absolute_deviation", "chi_squared",
                  "observed_distribution", "expected_distribution",
                  "top_deviations">>
        result ==
            IF n <= self.min_numbers
            THEN make_result(self, 0, <<"sample_size", "min_required">>, 30)
            ELSE IF mad > 270 * n \/ ChiSquaredExceeds(counts, n, 2009)
            THEN make_result(self, 350, full, 85)
            ELSE IF mad > 180 * n \/ ChiSquaredExceeds(counts, n, 1551)
            THEN make_result(self, 200, full, 75)
            ELSE IF mad > 135 * n
            THEN make_result(self, 100, full, 60)
            ELSE make_result(self, 0, full, 70)
    IN Returned(result, context, self, shared)

BenfordDetectorDetect(self, context, shared) ==
    LET fromAmounts == SelectSeq(context.amounts, LAMBDA a : a >= 10)
        leading_digits ==
            extract_leading_digits(context.text)
            \o [i \in 1..Len(fromAmounts) |-> LeadingDigit(fromAmounts[i])]
        n == Len(leading_digits)
        counts == DigitCounts(leading_digits)
        mad == MadScaled(counts, n)
        full == <<"sample_size", "mean_absolute_deviation", "chi_squared",
                  "observed_distribution", "expected_distribution",
                  "top_deviations">>
        result ==
            IF n < self.min_numbers
            THEN make_result(self, 0, <<"sample_size", "min_required">>, 30)
            ELSE IF mad > 270 * n \/ ChiSquaredExceeds(counts, n, 2009)
            THEN make_result(self, 350, full, 85)
            ELSE IF mad > 180 * n \/ ChiSquaredExceeds(counts, n, 1551)
            THEN make_result(self, 200, full, 75)
            ELSE IF mad > 135 * n
            THEN make_result(self, 100, full, 60)
            ELSE make_result(self, 0, full, 70)
    IN Returned(result, context, self, shared)

----------------------------------------------------------------------------
(* round_numbers.py *)

\* Pattern 1 ($ and comma-grouped digits) gives every dollar amount; pattern 2
\* ($ and a plain digit run) stops at the first comma and gives the leading
\* group; patterns 3 and 4 need a word (USD, dollars, amount, total, ...)
\* that no sentence carries.  Amounts that are not positive are dropped.
extract_monetary_amounts(text) ==
    LET p1 == DollarAmounts(text)
        p2 == [i \in 1..Len(p1) |-> LeadingGroup(p1[i])]
    IN SelectSeq(p1 \o p2, LAMBDA a : a > 0)

\* is_round_number(amount): the roundness type, "" when not round.  Model
\* amounts are whole, so amount == int(amount) holds.
RepeatedDigit(a) ==
    \E d \in 1..9 : \E k \in 4..9 : a = d * ((10 ^ k - 1) \div 9)

is_round_number(amount) ==
    IF amount < 100 THEN ""
    ELSE IF amount >= 1000 /\ amount % 1000 = 0 THEN "exact_thousands"
    ELSE IF amount >= 100 /\ amount % 100 = 0 THEN "exact_hundreds"
    ELSE IF amount >= 1000 THEN "no_cents"
    ELSE IF amount >= 1000 /\ RepeatedDigit(amount) THEN "repeated_digit"
    ELSE IF amount >= 1000 /\ amount % 1000 = 0 THEN "many_trailing_zeros"
    ELSE ""

RoundNumberDetectorInit(arg) ==
    Detector("round_numbers", BaseDetectorInit(arg, 10), 0, arg.min_amounts,
             <<>>, NoCategories)

\* Variant: amounts aliases context.amounts, so the amounts found in the text
\* are added to the caller's list.
RoundNumberDetectorDetectAliasing(self, context, shared) ==
    LET extracted == extract_monetary_amounts(context.text)
        amounts == SelectSeq(context.amounts \o extracted, LAMBDA a : a >= 100)
        round_amounts == SelectSeq(amounts, LAMBDA a : is_round_number(a) # "")
        n == Len(amounts)
        r == Len(round_amounts)
        result ==
            IF n < self.min_amounts THEN make_result(self, 0, <<"total_amounts">>, 30)
            ELSE make_result(self, IF 10 * r > 4 * n /\ r >= 3 THEN 100 ELSE 0,
                             <<"total_amounts", "round_amounts">>, 70)
    IN Returned(result, [context EXCEPT !.amounts = @ \o extracted], self, shared)

RoundNumberDetectorDetect(self, context, shared) ==
    LET extracted == extract_monetary_amounts(context.text)
        \* amounts is the fresh list returned by the extractor; extend() adds
        \* the pre-extracted amounts to that list, not to the context's.
        amounts == SelectSeq(extracted \o context.amounts, LAMBDA a : a >= 100)
        round_amounts == SelectSeq(amounts, LAMBDA a : is_round_number(a) # "")
        exact_thousands ==
            Len(SelectSeq(amounts, LAMBDA a : is_round_number(a) = "exact_thousands"))
        n == Len(amounts)
        r == Len(round_amounts)
        keys == <<"total_amounts", "round_amounts", "round_ratio",
                  "roundness_types", "sample_round_amounts">>
        tier == IF 10 * r > 8 * n /\ r >= 5 THEN <<300, 85>>
                ELSE IF 10 * r > 6 * n /\ r >= 4 THEN <<200, 75>>
                ELSE IF 10 * r > 4 * n /\ r >= 3 THEN <<100, 65>>
                ELSE <<0, 70>>
        score == IF exact_thousands >= 3 THEN tier[1] + 100 ELSE tier[1]
        confidence == IF exact_thousands >= 3 THEN Min2(tier[2] + 10, 100)
                      ELSE tier[2]
        result ==
            IF n < self.min_amounts
            THEN make_result(self, 0, <<"amounts_found", "min_required">>, 30)
            ELSE make_result(self, score, keys, confidence)
    IN Returned(result, context, self, shared)

----------------------------------------------------------------------------
(* split_invoice.py *)

\* The three invoice patterns need one of the words invoice, inv, bill; no
\* sentence carries one.  The stand-alone pattern gives every dollar amount
\* within 100..1000000.
extract_invoice_candidates(text) ==
    SelectSeq(DollarAmounts(text), LAMBDA a : 100 <= a /\ a <= 1000000)

\* Variant: the band starts at 0.40 x T.
ClusterWide(amounts, threshold) ==
    {a \in amounts : 40 * threshold <= 100 * a /\ 100 * a < 99 * threshold}

\* Variant: the amount at 0.99 x T belongs to the cluster.
ClusterClosed(amounts, threshold) ==
    {a \in amounts : 80 * threshold <= 100 * a /\ 100 * a <= 99 * threshold}

\* Per threshold: the cluster of amounts in [0.80*T, 0.99*T).
Cluster(amounts, threshold) ==
    {a \in amounts : 80 * threshold <= 100 * a /\ 100 * a < 99 * threshold}

detect_split_pattern(amounts, thresholds) ==
    LET clustered == SelectSeq(thresholds,
                        LAMBDA t : Cardinality(Cluster(amounts, t)) >= 2)
        suspicious == SelectSeq(clustered,
                        LAMBDA t : SumSet(Cluster(amounts, t)) > t)
    IN [clusters_below_threshold |->
            [i \in 1..Len(clustered) |->
                [threshold |-> clustered[i],
                 amounts_below |-> Cluster(amounts, clustered[i])]],
        suspicious_splits |->
            [i \in 1..Len(suspicious) |->
                [threshold |-> suspicious[i],
                 split_amounts |-> Cluster(amounts, suspicious[i])]],
        total_suspicious |->
            SumSeq([i \in 1..Len(suspicious) |->
                        Cardinality(Cluster(amounts, suspicious[i]))])]

DefaultThresholds == <<5000, 10000, 25000, 50000, 100000>>

\* "thresholds or [...]": None and the empty list both give the defaults.
SplitInvoiceDetectorInit(arg) ==
    Detector("split_invoice", BaseDetectorInit(arg, 13), 0, 0,
             IF arg.thresholds = <<>> THEN DefaultThresholds ELSE arg.thresholds,
             NoCategories)

SplitInvoiceDetectorDetect(self, context, shared) ==
    LET candidates == extract_invoice_candidates(context.text)
        amounts == Range(candidates \o context.amounts)      \* list(set(...))
        split_results == detect_split_pattern(amounts, self.thresholds)
        suspicious_count == split_results.total_suspicious
        split_count == Len(split_results.suspicious_splits)
        keys == <<"amounts_analyzed", "thresholds_checked",
                  "clusters_below_threshold", "suspicious_splits",
                  "total_suspicious_amounts">>
        result ==
            IF Cardinality(amounts) < 2
            THEN make_result(self, 0, <<"amounts_found">>, 30)
            ELSE IF split_count >= 3 \/ suspicious_count >= 6
            THEN make_result(self, 400, keys, 90)
            ELSE IF split_count >= 2 \/ suspicious_count >= 4
            THEN make_result(self, 300, keys, 80)
            ELSE IF split_count >= 1 \/ suspicious_count >= 2
            THEN make_result(self, 200, keys, 70)
            ELSE make_result(self, 0, keys, 60)
    IN Returned(result, context, self, shared)

----------------------------------------------------------------------------
(* bid_rigging.py *)

\* Pattern 1 (bid|quote|proposal|offer ... digits) matches a Bid sentence;
\* pattern 2 (letters, then "$" and digits) matches a Bid sentence and a paid
\* sentence; pattern 3 needs the word vendor.  One finditer loop per pattern.
extract_bids(text) ==
    LET p1 == SelectSeq(text, LAMBDA tok : tok.kind = "bid")
        p2 == SelectSeq(text, HasDollarAmount)
        all == p1 \o p2
    IN [i \in 1..Len(all) |-> all[i].amount]

BidContextWords == {"bid", "quote", "proposal", "tender", "rfp", "rfq", "procurement"}

has_bid_context(text) ==
    \E i \in 1..Len(text) : TokenWords(text[i]) \cap BidContextWords # {}

\* Counter(diffs).most_common(1)[0]: the highest count, and among equal
\* counts the difference met first.
MostCommon(diffs) ==
    LET best == CHOOSE i \in 1..Len(diffs) :
                    /\ \A j \in 1..Len(diffs) : Count(diffs, diffs[j]) <= Count(diffs, diffs[i])
                    /\ \A j \in 1..(i - 1) : Count(diffs, diffs[j]) < Count(diffs, diffs[i])
    IN <<diffs[best], Count(diffs, diffs[best])>>

detect_bid_patterns(amounts) ==
    IF Len(amounts) < 2
    THEN [patterns_found |-> <<>>, keys |-> {"patterns_found", "risk_indicators"}]
    ELSE
    LET identical == \E a \in Range(amounts) : Count(amounts, a) > 1
        distinct == SortedSet(Range(amounts))
        close == \E i \in 1..Len(distinct) : \E j \in (i + 1)..Len(distinct) :
                    distinct[i] > 0 /\ 100 * (distinct[j] - distinct[i]) < distinct[i]
        round_bids == SelectSeq(amounts, LAMBDA a : a >= 1000 /\ a % 1000 = 0)
        excessive_round == 2 * Len(round_bids) > Len(amounts)
        \* step 4 rebinds sorted_amounts to sorted(amounts) when it runs
        sorted_amounts == IF Len(amounts) >= 3 THEN sorted(amounts) ELSE distinct
        highest == sorted_amounts[Len(sorted_amounts)]
        others == SubSeq(sorted_amounts, 1, Len(sorted_amounts) - 1)
        complementary ==
            /\ Len(amounts) >= 3
            /\ others # <<>>
            /\ IF highest > 0
               THEN 100 * (MaxOfSeq(others) - MinOfSeq(others)) < 5 * highest
               ELSE TRUE
            /\ Len(others) >= 2
        diffs == [i \in 1..(Len(sorted_amounts) - 1) |->
                    sorted_amounts[i + 1] - sorted_amounts[i]]
        sequential ==
            /\ Len(diffs) >= 2
            /\ MostCommon(diffs)[2] >= 2
            /\ MostCommon(diffs)[1] > 0
    IN [patterns_found |->
            (IF identical THEN <<"identical_bids">> ELSE <<>>)
            \o (IF close THEN <<"suspiciously_close_bids">> ELSE <<>>)
            \o (IF excessive_round THEN <<"excessive_round_bids">> ELSE <<>>)
            \o (IF complementary THEN <<"complementary_bids">> ELSE <<>>)
            \o (IF sequential THEN <<"sequential_bids">> ELSE <<>>),
        keys |-> {"patterns_found", "risk_indicators", "bid_count", "unique_amounts"}]

\* No list of bids has been analysed.
NotAnalysed == [patterns_found |-> <<>>, keys |-> {}]

pattern_scores(pattern) ==
    CASE pattern = "identical_bids" -> 250
      [] pattern = "complementary_bids" -> 300
      [] pattern = "suspiciously_close_bids" -> 200
      [] pattern = "sequential_bids" -> 150
      [] pattern = "excessive_round_bids" -> 100
      [] OTHER -> 50

\* Variant: 0.1 more for every pattern, with no ceiling.
BidConfidenceUncapped(confidence, k) == confidence + 10 * k

\* confidence = min(confidence + 0.1, 0.95), once per pattern found
RECURSIVE BidConfidence(_, _)
BidConfidence(confidence, k) ==
    IF k = 0 THEN confidence ELSE BidConfidence(Min2(confidence + 10, 95), k - 1)

BidRiggingDetectorInit(arg) ==
    Detector("bid_rigging", BaseDetectorInit(arg, 14), 0, 0, <<>>, NoCategories)

BidRiggingDetectorDetect(self, context, shared) ==
    LET bids == extract_bids(context.text)
        analysis == detect_bid_patterns(bids)
        patterns == analysis.patterns_found
        score == Min2(SumSeq([i \in 1..Len(patterns) |-> pattern_scores(patterns[i])]), 1000)
        confidence == BidConfidence(60, Len(patterns))
    IN IF bids = <<>> /\ ~has_bid_context(context.text)
       THEN Returned(make_result(self, 0, <<"bid_context">>, 50), context, self, shared)
       ELSE IF bids = <<>>
       THEN Returned(make_result(self, 0, <<"bid_context", "bids_extracted">>, 40),
                     context, self, shared)
       \* analysis["bid_count"]: KeyError when the key is absent
       ELSE IF "bid_count" \notin analysis.keys \/ "unique_amounts" \notin analysis.keys
       THEN Raised(context, self, shared)
       ELSE Returned(make_result(self, score,
                                 <<"bids_analyzed", "patterns_detected",
                                   "risk_indicators", "bid_summary">>, confidence),
                     context, self, shared)

----------------------------------------------------------------------------
(* keywords.py *)

CategoryOrder == <<"bribery", "concealment", "pressure", "shell_entities",
                   "conflicts", "financial_irregularity">>

\* KEYWORD_CATEGORIES as the module is loaded.
DefaultKeywordCategories ==
    [c \in Range(CategoryOrder) |->
        CASE c = "bribery" ->
               [keywords |-> <<"bribe", "kickback", "payoff", "grease payment",
                               "facilitation payment", "under the table",
                               "cash payment", "gift", "gratuity", "inducement">>,
                weight |-> 20]
          [] c = "concealment" ->
               [keywords |-> <<"off-book", "undisclosed", "hidden", "secret",
                               "confidential arrangement", "side agreement",
                               "unofficial", "unrecorded", "destroy records">>,
                weight |-> 18]
          [] c = "pressure" ->
               [keywords |-> <<"must approve", "no questions", "bypass", "override",
                               "expedite approval", "special handling", "exception",
                               "waive requirement", "ignore policy">>,
                weight |-> 15]
          [] c = "shell_entities" ->
               [keywords |-> <<"shell company", "nominee", "offshore", "bearer shares",
                               "trust account", "intermediary", "proxy",
                               "front company", "special purpose vehicle">>,
                weight |-> 17]
          [] c = "conflicts" ->
               [keywords |-> <<"conflict of interest", "related party", "family member",
                               "personal relationship", "undisclosed relationship",
                               "competing interest", "self-dealing">>,
                weight |-> 16]
          [] OTHER ->
               [keywords |-> <<"cash only", "no receipt", "no invoice", "falsified",
                               "inflated", "duplicate payment", "phantom",
                               "fictitious", "overbilling">>,
                weight |-> 19]]

\* An entry of self.categories.  KEYWORD_CATEGORIES.copy() is shallow: an
\* entry copied from the table IS the table's inner dict (shared = TRUE, its
\* keywords and weight are read through the table); an entry added for a new
\* category is a dict of the instance's own.
SharedEntry(category) ==
    [category |-> category, shared |-> TRUE, keywords |-> <<>>, weight |-> 0]

OwnEntry(category, keywords) ==
    [category |-> category, shared |-> FALSE, keywords |-> keywords, weight |-> 10]

Config(entry, shared) ==
    IF entry.shared THEN shared[entry.category]
    ELSE [keywords |-> entry.keywords, weight |-> entry.weight]

HasCategory(categories, category) ==
    \E i \in 1..Len(categories) : categories[i].category = category

\* self.categories[category]["keywords"].extend(keywords)
ExtendKeywords(categories, shared, category, keywords) ==
    LET i == CHOOSE j \in 1..Len(categories) : categories[j].category = category
    IN IF categories[i].shared
       THEN [categories |-> categories,
             shared |-> [shared EXCEPT ![category].keywords = @ \o keywords]]
       ELSE [categories |-> [categories EXCEPT ![i].keywords = @ \o keywords],
             shared |-> shared]

\* The loop over custom_keywords.items(), from item k on.
RECURSIVE MergeCustom(_, _, _, _)
MergeCustom(categories, shared, custom, k) ==
    IF k > Len(custom) THEN [categories |-> categories, shared |-> shared]
    ELSE IF HasCategory(categories, custom[k].category)
    THEN LET e == ExtendKeywords(categories, shared, custom[k].category,
                                 custom[k].keywords)
         IN MergeCustom(e.categories, e.shared, custom, k + 1)
    ELSE MergeCustom(Append(categories,
                            OwnEntry(custom[k].category, custom[k].keywords)),
                     shared, custom, k + 1)

\* KeywordDetector.__init__: the new object and the module table afterwards.
KeywordDetectorInit(arg, shared) ==
    LET copy == [i \in 1..Len(CategoryOrder) |-> SharedEntry(CategoryOrder[i])]
        merged == MergeCustom(copy, shared, arg.custom_keywords, 1)
    IN [self |-> Detector("keywords", BaseDetectorInit(arg, 10), 0, 0, <<>>,
                          merged.categories),
        shared |-> merged.shared]

\* find_keywords: one entry per keyword of the list and sentence it occurs in.
find_keywords(text, keywords) ==
    LET hits(k) == SelectSeq(text, LAMBDA tok : keywords[k] \in TokenWords(tok))
        RECURSIVE from(_)
        from(k) == IF k > Len(keywords) THEN <<>>
                   ELSE [i \in 1..Len(hits(k)) |-> keywords[k]] \o from(k + 1)
    IN from(1)

KeywordDetectorDetect(self, context, shared) ==
    LET cats == self.categories
        matches(i) == find_keywords(context.text, Config(cats[i], shared).keywords)
        triggered == {i \in 1..Len(cats) : matches(i) # <<>>}
        category_score(i) ==
            Cardinality(Range(matches(i))) * 10 * Config(cats[i], shared).weight
        raw_score == SumSeq([i \in 1..Len(cats) |->
                                IF i \in triggered THEN category_score(i) ELSE 0])
        score == Min2(raw_score, 500)
        confidence == Min2(60 + 10 * Cardinality(triggered), 95)
        result ==
            IF triggered = {}
            THEN make_result(self, 0, <<"categories_checked">>, 70)
            ELSE make_result(self, score,
                             <<"total_matches", "categories_triggered",
                               "category_details", "sample_matches">>, confidence)
    IN Returned(result, context, self, shared)

----------------------------------------------------------------------------
(* urgency.py *)

\* URGENCY_PATTERNS: per pattern the one-word alternatives of its regular
\* expression and its weight; the other alternatives are phrases of two or
\* more words, which no sentence carries.
URGENCY_PATTERNS == <<
    [words |-> {"urgent", "urgently", "asap", "immediately"}, weight |-> 15],
    [words |-> {"rush", "rushed", "expedite", "expedited"}, weight |-> 13],
    [words |-> {}, weight |-> 14],
    [words |-> {"today", "tonight"}, weight |-> 12],
    [words |-> {}, weight |-> 13],
    [words |-> {}, weight |-> 14],
    [words |-> {}, weight |-> 15],
    [words |-> {}, weight |-> 16],
    [words |-> {}, weight |-> 18],
    [words |-> {"otherwise", "consequence", "consequences", "penalty", "penalized"},
     weight |-> 14],
    [words |-> {}, weight |-> 15],
    [words |-> {}, weight |-> 13],
    [words |-> {}, weight |-> 14],
    [words |-> {}, weight |-> 13],
    [words |-> {}, weight |-> 17] >>

UrgencyDetectorInit(arg) ==
    Detector("urgency", BaseDetectorInit(arg, 9), 0, 0, <<>>, NoCategories)

\* Variant: the detector keeps the outcome of its last call on itself, and
\* drops its weight once a text matched nothing.
UrgencyDetectorDetectStateful(self, context, shared) ==
    LET nmatches(p) ==
            Len(SelectSeq(context.text,
                          LAMBDA tok : TokenWords(tok) \cap URGENCY_PATTERNS[p].words # {}))
        total_weight == SumSeq([p \in 1..Len(URGENCY_PATTERNS) |->
                                    nmatches(p) * URGENCY_PATTERNS[p].weight])
        unique_patterns == Cardinality({p \in 1..Len(URGENCY_PATTERNS) : nmatches(p) > 0})
    IN IF unique_patterns = 0
       THEN Returned(make_result(self, 0, <<>>, 70), context,
                     [self EXCEPT !.weight = 0], shared)
       ELSE Returned(make_result(self, Min2(total_weight * 5, 250),
                                 <<"total_matches", "unique_patterns", "weighted_score",
                                   "sample_phrases">>,
                                 Min2(50 + 10 * unique_patterns, 85)),
                     context, self, shared)

UrgencyDetectorDetect(self, context, shared) ==
    LET nmatches(p) ==
            Len(SelectSeq(context.text,
                          LAMBDA tok : TokenWords(tok) \cap URGENCY_PATTERNS[p].words # {}))
        total_weight == SumSeq([p \in 1..Len(URGENCY_PATTERNS) |->
                                    nmatches(p) * URGENCY_PATTERNS[p].weight])
        unique_patterns == Cardinality({p \in 1..Len(URGENCY_PATTERNS) : nmatches(p) > 0})
        result ==
            IF unique_patterns = 0
            THEN make_result(self, 0, <<>>, 70)
            ELSE make_result(self, Min2(total_weight * 5, 250),
                             <<"total_matches", "unique_patterns", "weighted_score",
                               "sample_phrases">>,
                             Min2(50 + 10 * unique_patterns, 85))
    IN Returned(result, context, self, shared)

----------------------------------------------------------------------------
(* velocity.py *)

\* A pre-extracted date string "YYYY-MM-DD" is held as [y, m, d].
IsLeap(y) == (y % 4 = 0 /\ y % 100 # 0) \/ y % 400 = 0

DaysInMonth(y, m) ==
    IF m = 2 THEN (IF IsLeap(y) THEN 29 ELSE 28)
    ELSE IF m \in {4, 6, 9, 11} THEN 30 ELSE 31

\* datetime.fromisoformat succeeds
ParsesAsDate(ds) ==
    /\ ds.y \in 1..9999
    /\ ds.m \in 1..12
    /\ ds.d >= 1 /\ ds.d <= DaysInMonth(ds.y, ds.m)

\* dt.weekday(): Monday = 0 ... Sunday = 6
Weekday(ds) ==
    LET t == <<0, 3, 2, 5, 0, 3, 5, 1, 4, 6, 2, 4>>
        y == IF ds.m < 3 THEN ds.y - 1 ELSE ds.y
        sundayBased == (y + y \div 4 - y \div 100 + y \div 400 + t[ds.m] + ds.d) % 7
    IN (sundayBased + 6) % 7

\* No sentence carries a date.
extract_dates(text) == <<>>

\* analyze_date_patterns: the severities of the risk indicators, in order.
analyze_date_patterns(dates) ==
    IF Len(dates) < 2 THEN [severities |-> <<>>, keys |-> {"patterns", "risk_indicators"}]
    ELSE
    LET n == Len(dates)
        weekend == Len(SelectSeq(dates, LAMBDA ds : Weekday(ds) >= 5))
        clustered == \E ds \in Range(dates) : Count(dates, ds) >= 3
        month_end == Len(SelectSeq(dates, LAMBDA ds : ds.d >= 28))
    IN [severities |->
            (IF 10 * weekend > 3 * n
             THEN <<IF 2 * weekend > n THEN "medium" ELSE "low">> ELSE <<>>)
            \o (IF clustered THEN <<"medium">> ELSE <<>>)
            \o (IF 10 * month_end > 4 * n THEN <<"low">> ELSE <<>>),
        keys |-> {"patterns", "risk_indicators", "total_dates", "unique_dates",
                  "weekend_ratio"}]

SeverityScore(severity) ==
    IF severity = "high" THEN 150 ELSE IF severity = "medium" THEN 100 ELSE 50

VelocityDetectorInit(arg) ==
    Detector("velocity", BaseDetectorInit(arg, 8), 0, 0, <<>>, NoCategories)

VelocityDetectorDetect(self, context, shared) ==
    LET dates == extract_dates(context.text) \o SelectSeq(context.dates, ParsesAsDate)
        analysis == analyze_date_patterns(dates)
        sev == analysis.severities
        score == Min2(SumSeq([i \in 1..Len(sev) |-> SeverityScore(sev[i])]), 300)
        confidence == Min2(50 + 10 * Len(sev), 80)
    IN IF Len(dates) < 2
       THEN Returned(make_result(self, 0, <<"dates_found">>, 40), context, self, shared)
       ELSE IF {"unique_dates", "weekend_ratio"} \subseteq analysis.keys
       THEN Returned(make_result(self, score,
                                 <<"dates_analyzed", "unique_dates", "weekend_ratio",
                                   "patterns_detected", "risk_indicators">>, confidence),
                     context, self, shared)
       ELSE Raised(context, self, shared)

----------------------------------------------------------------------------
(* engine.py *)

\* Constructor arguments of one detector, as the caller writes them.
Arg(kind) ==
    [kind |-> kind, has_weight |-> FALSE, weight |-> 0, min_numbers |-> 20,
     min_amounts |-> 3, thresholds |-> <<>>, custom_keywords |-> <<>>]

Weighted(kind, weight) == [Arg(kind) EXCEPT !.has_weight = TRUE, !.weight = weight]

\* Constructing one detector object: the object and the keyword table after.
NewDetector(arg, shared) ==
    CASE arg.kind = "benford" -> [self |-> BenfordDetectorInit(arg), shared |-> shared]
      [] arg.kind = "round_numbers" -> [self |-> RoundNumberDetectorInit(arg), shared |-> shared]
      [] arg.kind = "split_invoice" -> [self |-> SplitInvoiceDetectorInit(arg), shared |-> shared]
      [] arg.kind = "bid_rigging" -> [self |-> BidRiggingDetectorInit(arg), shared |-> shared]
      [] arg.kind = "keywords" -> KeywordDetectorInit(arg, shared)
      [] arg.kind = "urgency" -> [self |-> UrgencyDetectorInit(arg), shared |-> shared]
      [] OTHER -> [self |-> VelocityDetectorInit(arg), shared |-> shared]

\* The caller's list expression [D1(...), D2(...), ...], evaluated left to right.
RECURSIVE NewDetectors(_, _, _)
NewDetectors(args, shared, built) ==
    IF args = <<>> THEN [detectors |-> built, shared |-> shared]
    ELSE LET d == NewDetector(Head(args), shared)
         IN NewDetectors(Tail(args), d.shared, Append(built, d.self))

_default_detectors ==
    <<Weighted("benford", 12), Weighted("round_numbers", 10),
      Weighted("split_invoice", 13), Weighted("bid_rigging", 14),
      Weighted("keywords", 10), Weighted("urgency", 9), Weighted("velocity", 8)>>

\* SignalEngine.__init__: "detectors or self._default_detectors()".  given is
\* FALSE for None; an empty list is as falsy as None.
SignalEngineInit(given, objects, shared) ==
    IF given /\ objects # <<>>
    THEN [detectors |-> objects, shared |-> shared]
    ELSE NewDetectors(_default_detectors, shared, <<>>)

\* detector.detect(context), dispatched on the detector's class.
Detect(self, context, shared) ==
    CASE self.name = "benford" -> BenfordDetectorDetect(self, context, shared)
      [] self.name = "round_numbers" -> RoundNumberDetectorDetect(self, context, shared)
      [] self.name = "split_invoice" -> SplitInvoiceDetectorDetect(self, context, shared)
      [] self.name = "bid_rigging" -> BidRiggingDetectorDetect(self, context, shared)
      [] self.name = "keywords" -> KeywordDetectorDetect(self, context, shared)
      [] self.name = "urgency" -> UrgencyDetectorDetect(self, context, shared)
      [] OTHER -> VelocityDetectorDetect(self, context, shared)

\* The except branch of the detector loop.
ErrorResult(detector) ==
    SignalResult(detector.name, 0, detector.weight, <<"error">>, 0)

\* Variant: the loop body without its try/except.
RunDetectorUncaught(frame, i) ==
    LET out == Detect(frame.detectors[i], frame.context, frame.shared)
    IN [results |-> IF out.raised THEN frame.results ELSE Append(frame.results, out.result),
        propagated |-> out.raised,
        context |-> out.context,
        detectors |-> [frame.detectors EXCEPT ![i] = out.self],
        shared |-> out.shared]

\* Variant: a detector that raises is passed over and leaves no entry.
RunDetectorSkipping(frame, i) ==
    LET out == Detect(frame.detectors[i], frame.context, frame.shared)
    IN [results |-> IF out.raised THEN frame.results ELSE Append(frame.results, out.result),
        propagated |-> FALSE,
        context |-> out.context,
        detectors |-> [frame.detectors EXCEPT ![i] = out.self],
        shared |-> out.shared]

\* One iteration of "for detector in self.detectors": the frame (results so
\* far, context, detectors, keyword table) after detector i has run.
RunDetector(frame, i) ==
    LET out == Detect(frame.detectors[i], frame.context, frame.shared)
    IN [results |-> Append(frame.results,
                           IF out.raised THEN ErrorResult(out.self) ELSE out.result),
        propagated |-> FALSE,
        context |-> out.context,
        detectors |-> [frame.detectors EXCEPT ![i] = out.self],
        shared |-> out.shared]

RECURSIVE RunDetectors(_, _)
RunDetectors(frame, i) ==
    IF i > Len(frame.detectors) \/ frame.propagated THEN frame
    ELSE RunDetectors(RunDetector(frame, i), i + 1)

StartFrame(dets, context, shared) ==
    [results |-> <<>>, propagated |-> FALSE, context |-> context,
     detectors |-> dets, shared |-> shared]

\* Variant: the tier between 50 and 75 is missing.
classify_risk_level_no_high(score) ==
    IF score >= 75 THEN "critical"
    ELSE IF score >= 25 THEN "medium"
    ELSE "low"

classify_risk_level(score) ==
    IF score >= 75 THEN "critical"
    ELSE IF score >= 50 THEN "high"
    ELSE IF score >= 25 THEN "medium"
    ELSE "low"

\* Recommendations are named by the detector they answer to.
generate_recommendations(top_factors, risk_level) ==
    LET factor_types == {top_factors[i].detector : i \in 1..Len(top_factors)}
        advice(name) == IF name \in factor_types THEN <<name>> ELSE <<>>
        specific == advice("benford") \o advice("split_invoice") \o advice("bid_rigging")
                    \o advice("round_numbers") \o advice("keywords")
                    \o advice("urgency") \o advice("velocity")
        recommendations ==
            IF risk_level \in {"high", "critical"}
            THEN <<"supervisor_review">> \o specific \o <<"forensic_audit">>
            ELSE specific
    IN SubSeq(recommendations, 1, Min2(5, Len(recommendations)))

\* The sort key of a contributing result: score * weight * confidence.
Contribution(r) == r.score * r.weight * r.confidence

\* Variant: a descending sort that puts a result before its equals.
RECURSIVE InsertDescUnstable(_, _)
InsertDescUnstable(s, e) ==
    IF s = <<>> THEN <<e>>
    ELSE IF Contribution(Head(s).r) > Contribution(e.r)
    THEN <<Head(s)>> \o InsertDescUnstable(Tail(s), e)
    ELSE <<e>> \o s

\* sorted(..., key=..., reverse=True) is stable: results with equal keys keep
\* their order.  Each entry carries the position of its result in
\* detector_results.
RECURSIVE InsertDesc(_, _)
InsertDesc(s, e) ==
    IF s = <<>> THEN <<e>>
    ELSE IF Contribution(Head(s).r) >= Contribution(e.r)
    THEN <<Head(s)>> \o InsertDesc(Tail(s), e)
    ELSE <<e>> \o s

RECURSIVE SortContributing(_, _)
SortContributing(entries, k) ==
    IF k = 0 THEN <<>>
    ELSE InsertDesc(SortContributing(entries, k - 1), entries[k])

SignedRound(n, d) ==
    IF n >= 0 THEN RoundHalfEven(n, d) ELSE 0 - RoundHalfEven(0 - n, d)

\* Variant: without "avg_confidence = 0.5" in the branch of no triggered
\* detector, where avg_confidence keeps its initial 0.0.
AggregateNoDefault(detector_results, ndetectors) ==
    LET positions == SelectSeq([i \in 1..Len(detector_results) |-> i],
                               LAMBDA i : detector_results[i].score > 0)
        triggered == [k \in 1..Len(positions) |->
                        [r |-> detector_results[positions[k]], position |-> positions[k]]]
        total_weighted_score ==
            SumSeq([k \in 1..Len(triggered) |-> Contribution(triggered[k].r)])
        total_weight == SumSeq([k \in 1..Len(triggered) |-> triggered[k].r.weight])
        sum_confidence == SumSeq([k \in 1..Len(triggered) |-> triggered[k].r.confidence])
        risk_score ==
            IF total_weight > 0
            THEN IF total_weighted_score >= 100000 * total_weight THEN 100
                 ELSE IntTrunc(total_weighted_score, 1000 * total_weight)
            ELSE 0
        confidence ==
            IF total_weight > 0 THEN RoundHalfEven(sum_confidence, Len(triggered))
            ELSE 0
        risk_level == classify_risk_level(risk_score)
        contributing_results == SortContributing(triggered, Len(triggered))
        top == SubSeq(contributing_results, 1, Min2(5, Len(contributing_results)))
        top_factors ==
            [k \in 1..Len(top) |->
                [detector |-> top[k].r.detector_name,
                 score_contribution |-> SignedRound(top[k].r.score * top[k].r.weight, 10),
                 confidence |-> top[k].r.confidence,
                 key_indicators |-> SubSeq(top[k].r.indicators, 1,
                                           Min2(3, Len(top[k].r.indicators))),
                 position |-> top[k].position]]
        names == {detector_results[i].detector_name : i \in 1..Len(detector_results)}
        last(name) == CHOOSE i \in 1..Len(detector_results) :
                        /\ detector_results[i].detector_name = name
                        /\ \A j \in (i + 1)..Len(detector_results) :
                                detector_results[j].detector_name # name
        signals ==
            [detectors_run |-> ndetectors,
             detectors_triggered |-> Len(contributing_results),
             detector_breakdown |->
                [n \in names |->
                    [score |-> detector_results[last(n)].score,
                     weight |-> detector_results[last(n)].weight,
                     confidence |-> detector_results[last(n)].confidence,
                     indicators |-> detector_results[last(n)].indicators]]]
        explanation ==
            [no_indicators |-> risk_score = 0,
             factor_names |-> IF risk_score = 0 THEN <<>>
                              ELSE [k \in 1..Min2(3, Len(top_factors)) |->
                                        top_factors[k].detector]]
    IN [risk_score |-> risk_score,
        risk_level |-> risk_level,
        confidence |-> confidence,
        signals |-> signals,
        explanation |-> explanation,
        top_factors |-> top_factors,
        detector_results |-> detector_results,
        recommendations |-> generate_recommendations(top_factors, risk_level)]

\* The part of analyze() after the detector loop.
Aggregate(detector_results, ndetectors) ==
    LET positions == SelectSeq([i \in 1..Len(detector_results) |-> i],
                               LAMBDA i : detector_results[i].score > 0)
        triggered == [k \in 1..Len(positions) |->
                        [r |-> detector_results[positions[k]], position |-> positions[k]]]
        total_weighted_score ==
            SumSeq([k \in 1..Len(triggered) |-> Contribution(triggered[k].r)])
        total_weight == SumSeq([k \in 1..Len(triggered) |-> triggered[k].r.weight])
        sum_confidence == SumSeq([k \in 1..Len(triggered) |-> triggered[k].r.confidence])
        risk_score ==
            IF total_weight > 0
            THEN IF total_weighted_score >= 100000 * total_weight THEN 100
                 ELSE IntTrunc(total_weighted_score, 1000 * total_weight)
            ELSE 0
        confidence ==
            IF total_weight > 0 THEN RoundHalfEven(sum_confidence, Len(triggered))
            ELSE 50
        risk_level == classify_risk_level(risk_score)
        contributing_results == SortContributing(triggered, Len(triggered))
        top == SubSeq(contributing_results, 1, Min2(5, Len(contributing_results)))
        top_factors ==
            [k \in 1..Len(top) |->
                [detector |-> top[k].r.detector_name,
                 score_contribution |-> SignedRound(top[k].r.score * top[k].r.weight, 10),
                 confidence |-> top[k].r.confidence,
                 key_indicators |-> SubSeq(top[k].r.indicators, 1,
                                           Min2(3, Len(top[k].r.indicators))),
                 position |-> top[k].position]]
        names == {detector_results[i].detector_name : i \in 1..Len(detector_results)}
        last(name) == CHOOSE i \in 1..Len(detector_results) :
                        /\ detector_results[i].detector_name = name
                        /\ \A j \in (i + 1)..Len(detector_results) :
                                detector_results[j].detector_name # name
        signals ==
            [detectors_run |-> ndetectors,
             detectors_triggered |-> Len(contributing_results),
             detector_breakdown |->
                [n \in names |->
                    [score |-> detector_results[last(n)].score,
                     weight |-> detector_results[last(n)].weight,
                     confidence |-> detector_results[last(n)].confidence,
                     indicators |-> detector_results[last(n)].indicators]]]
        explanation ==
            [no_indicators |-> risk_score = 0,
             factor_names |-> IF risk_score = 0 THEN <<>>
                              ELSE [k \in 1..Min2(3, Len(top_factors)) |->
                                        top_factors[k].detector]]
    IN [risk_score |-> risk_score,
        risk_level |-> risk_level,
        confidence |-> confidence,
        signals |-> signals,
        explanation |-> explanation,
        top_factors |-> top_factors,
        detector_results |-> detector_results,
        recommendations |-> generate_recommendations(top_factors, risk_level)]

\* SignalEngine.analyze(context) on an engine whose detector list is dets:
\* the value returned (or raised = TRUE when an exception leaves analyze)
\* and every object the call could reach, as the call leaves it.
analyze(dets, context, shared) ==
    CHOOSE out \in {[raised |-> frame.propagated,
                     value |-> Aggregate(frame.results, Len(frame.detectors)),
                     context |-> frame.context,
                     detectors |-> frame.detectors,
                     shared |-> frame.shared] :
                        frame \in {RunDetectors(StartFrame(dets, context, shared), 1)}} : TRUE

----------------------------------------------------------------------------
(* Analysis jobs: domain/analysis_job.py, services/supabase_postgrest.py,
   repositories/analysis_job_repo.py, services/case_service.py.

   A job record is a Python dict: a function from the keys it has to
   strings.  None is written "None"; no id, status, message or timestamp is
   that string.  A value a call passes or returns is tagged with its Python
   type: [type |-> "list" | "dict" | "NoneType", items |-> the rows]. *)

None == "None"

\* AnalysisJobRecord / AnalysisJobResult: the columns of a job
Columns == {"job_id", "case_id", "status", "error", "queued_at", "started_at",
            "completed_at"}

\* AnalysisJobResult.status: Literal["queued", "running", "completed", "failed"]
Statuses == {"queued", "running", "completed", "failed"}

NoneValue == [type |-> "NoneType", items |-> <<>>]
ListOf(rows) == [type |-> "list", items |-> rows]
DictOf(row) == [type |-> "dict", items |-> <<row>>]

\* What the client's response.json() holds for the rows a request touched:
\* the JSON array of the rows' representation, one JSON object, or nothing
\* at all ("if not response.content: return None").
Answer(form, rows) ==
    IF form = "empty" THEN NoneValue
    ELSE IF form = "object" /\ Len(rows) = 1 THEN DictOf(rows[1])
    ELSE ListOf(rows)

\* The row the table keeps for an inserted record: absent columns are null.
Stored(json) == [c \in Columns |-> IF c \in DOMAIN json THEN json[c] ELSE None]

\* SupabasePostgrest.post("/analysis_jobs", json=...)
post(table, json, form) ==
    [table |-> Append(table, Stored(json)), answer |-> Answer(form, <<Stored(json)>>)]

\* Variant: the PATCH carries no job_id filter and rewrites every row.
patch_every_row(table, job_id, json, form) ==
    LET patched == [i \in 1..Len(table) |->
                        [c \in Columns |-> IF c \in DOMAIN json THEN json[c]
                                           ELSE table[i][c]]]
    IN [table |-> patched,
        answer |-> Answer(form, SelectSeq(patched, LAMBDA row : row.job_id = job_id))]

\* SupabasePostgrest.patch("/analysis_jobs", params={"job_id": "eq.<id>"}, json=...)
patch(table, job_id, json, form) ==
    LET patched == [i \in 1..Len(table) |->
                        IF table[i].job_id = job_id
                        THEN [c \in Columns |-> IF c \in DOMAIN json THEN json[c]
                                                ELSE table[i][c]]
                        ELSE table[i]]
    IN [table |-> patched,
        answer |-> Answer(form, SelectSeq(patched, LAMBDA row : row.job_id = job_id))]

\* SupabasePostgrest.get("/analysis_jobs", params={"job_id": "eq.<id>", "select": "*"})
get(table, job_id, form) ==
    [table |-> table,
     answer |-> Answer(form, SelectSeq(table, LAMBDA row : row.job_id = job_id))]

\* Variant: create hands back the record it was given, whatever the answer.
AnalysisJobRepositoryCreateEcho(table, obj_in, form) ==
    LET sent == post(table, obj_in, form)
    IN [table |-> sent.table, answer |-> sent.answer, returned |-> DictOf(obj_in)]

\* AnalysisJobRepository.create(obj_in)
AnalysisJobRepositoryCreate(table, obj_in, form) ==
    LET sent == post(table, obj_in, form)
        created == sent.answer
    IN [table |-> sent.table,
        answer |-> created,
        returned |->
            IF created.type = "list" /\ created.items # <<>>
            THEN DictOf(created.items[1])
            ELSE IF created.type = "dict" THEN created
            ELSE DictOf(obj_in)]

\* AnalysisJobRepository.update(job_id, obj_in)
AnalysisJobRepositoryUpdate(table, job_id, obj_in, form) ==
    LET sent == patch(table, job_id, obj_in, form)
        updated == sent.answer
    IN [table |-> sent.table,
        answer |-> updated,
        returned |->
            IF updated.type = "list" /\ updated.items # <<>>
            THEN DictOf(updated.items[1])
            ELSE IF updated.type = "dict" THEN updated
            ELSE DictOf(obj_in)]

\* AnalysisJobRepository.get(job_id): "if rows and len(rows) > 0"
AnalysisJobRepositoryGet(table, job_id, form) ==
    LET sent == get(table, job_id, form)
        rows == sent.answer
    IN [table |-> sent.table,
        answer |-> rows,
        returned |->
            IF rows.type # "NoneType" /\ rows.items # <<>> THEN DictOf(rows.items[1])
            ELSE NoneValue]

\* AnalysisJobResult(**job): job_id and case_id are required strings, status
\* is one of the four literals, the other fields default to None, and keys
\* that are no field of the model are ignored.
AnalysisJobResult(job) ==
    [valid |-> /\ {"job_id", "case_id", "status"} \subseteq DOMAIN job
               /\ job["job_id"] # None
               /\ job["case_id"] # None
               /\ job["status"] \in Statuses,
     value |-> [c \in Columns |-> IF c \in DOMAIN job THEN job[c] ELSE None]]

\* Variant: the result is built from the identifying fields alone.
get_analysis_job_ids_only(table, job_id, form) ==
    LET found == AnalysisJobRepositoryGet(table, job_id, form)
        job == found.returned
    IN IF job.type = "NoneType" \/ DOMAIN job.items[1] = {}
       THEN [table |-> found.table, answer |-> found.answer, job |-> job,
             raised |-> "AnalysisJobNotFound", returned |-> NoneValue]
       ELSE [table |-> found.table, answer |-> found.answer, job |-> job,
             raised |-> "",
             returned |-> DictOf([c \in Columns |->
                                    IF c \in {"job_id", "case_id", "status"}
                                    THEN job.items[1][c] ELSE None])]

\* CaseService.get_analysis_job(job_id)
get_analysis_job(table, job_id, form) ==
    LET found == AnalysisJobRepositoryGet(table, job_id, form)
        job == found.returned
    IN IF job.type = "NoneType" \/ DOMAIN job.items[1] = {}
       THEN [table |-> found.table, answer |-> found.answer, job |-> job,
             raised |-> "AnalysisJobNotFound", returned |-> NoneValue]
       ELSE IF ~AnalysisJobResult(job.items[1]).valid
       THEN [table |-> found.table, answer |-> found.answer, job |-> job,
             raised |-> "ValidationError", returned |-> NoneValue]
       ELSE [table |-> found.table, answer |-> found.answer, job |-> job,
             raised |-> "",
             returned |-> DictOf(AnalysisJobResult(job.items[1]).value)]

\* No job call has been made.
NoReply ==
    [op |-> "none", job_id |-> "", input |-> NoneValue, answer |-> NoneValue,
     job |-> NoneValue, returned |-> NoneValue, raised |-> "", before |-> <<>>]

----------------------------------------------------------------------------
(* Cases and analysis runs: domain/case.py, repositories/case_repo.py,
   application/cases/analyze_case.py, services/case_service.py.

   A case row is a record of the columns case_id, status, risk_score,
   explanation and signals; signals is a record of the keys the analysis
   reads or writes, an absent key held as None (as FALSE for
   computed).  Timestamps kept under signals are left out: no code reads
   them. *)

\* CaseStatus = Literal["uploaded", "processing", "analyzed", "failed"]
CaseStatuses == {"uploaded", "processing", "analyzed", "failed"}

\* signals: {} of a case that has none of the keys
NoSignals ==
    [original_file |-> None, analysis_job_id |-> None, analysis_error |-> None,
     computed |-> FALSE]

\* The row CreateCaseFromUpload leaves for an uploaded file.
Uploaded(case_id, original_file) ==
    [case_id |-> case_id, status |-> "uploaded", risk_score |-> 0,
     explanation |-> None,
     signals |-> [NoSignals EXCEPT !.original_file = original_file]]

\* Variant: get hands back the table's first row whatever id is asked for.
CaseRepositoryGetAny(table, id) ==
    IF table # <<>> THEN <<table[1]>> ELSE <<>>

\* CaseRepository.get(id): <<row>>, or <<>> for None
CaseRepositoryGet(table, id) ==
    LET rows == SelectSeq(table, LAMBDA row : row.case_id = id)
    IN IF rows # <<>> THEN <<rows[1]>> ELSE <<>>

\* CaseRepository.update(id, obj_in): the table after the PATCH of the rows
\* with that case_id
CaseRepositoryUpdate(table, id, obj_in) ==
    [i \in 1..Len(table) |->
        IF table[i].case_id = id
        THEN [c \in DOMAIN table[i] |-> IF c \in DOMAIN obj_in THEN obj_in[c]
                                        ELSE table[i][c]]
        ELSE table[i]]

\* str(e) of the DomainError subclasses AnalyzeCase raises
CaseNotFoundText == "Case not found"
CaseMissingFileText == "No file associated with this case"
CaseExtractionFailedText == "Could not extract text"

\* AnalyzeCase.execute from its repository.get to the update it is about to
\* send: found is what the get returned, text what extract_text returned,
\* score what compute_risk_score returned.
AnalyzeCaseExecute(found, text, score) ==
    IF found = <<>>
    THEN [raised |-> "CaseNotFound", error |-> CaseNotFoundText,
          signals |-> NoSignals, risk_score |-> 0]
    ELSE IF found[1].signals.original_file = None
    THEN [raised |-> "CaseMissingFile", error |-> CaseMissingFileText,
          signals |-> found[1].signals, risk_score |-> 0]
    ELSE IF text = ""
    THEN [raised |-> "CaseExtractionFailed", error |-> CaseExtractionFailedText,
          signals |-> found[1].signals, risk_score |-> 0]
    ELSE [raised |-> "", error |-> None,
          signals |-> [found[1].signals EXCEPT !.computed = TRUE],
          risk_score |-> score]

\* The place of a coroutine: the request it makes next.  queue_analysis runs
\* from create_job to update_case and starts _run_analysis, which runs from
\* mark_running on.
Places ==
    {"create_job", "update_case", "mark_running", "execute", "write_analyzed",
     "mark_completed", "reread_case", "write_failed", "mark_failed", "done",
     "CaseNotFound", "crashed"}

\* Variant: on a DomainError the job is marked before the case is written.
ThenJobFirst(pc) ==
    CASE pc = "create_job" -> "update_case"
      [] pc = "update_case" -> "mark_running"
      [] pc = "mark_running" -> "execute"
      [] pc = "write_analyzed" -> "mark_completed"
      [] pc = "mark_completed" -> "done"
      [] pc = "reread_case" -> "mark_failed"
      [] pc = "mark_failed" -> "write_failed"
      [] pc = "write_failed" -> "done"
      [] OTHER -> pc

\* The statement order of queue_analysis and _run_analysis.
Then(pc) ==
    CASE pc = "create_job" -> "update_case"
      [] pc = "update_case" -> "mark_running"
      [] pc = "mark_running" -> "execute"
      [] pc = "write_analyzed" -> "mark_completed"
      [] pc = "mark_completed" -> "done"
      [] pc = "reread_case" -> "write_failed"
      [] pc = "write_failed" -> "mark_failed"
      [] pc = "mark_failed" -> "done"
      [] OTHER -> pc

\* One call of queue_analysis with the task it starts: its arguments, its
\* place, and the locals signals and str(e).
Task(case_id, job_id, pc, signals, error) ==
    [case_id |-> case_id, job_id |-> job_id, pc |-> pc, signals |-> signals,
     error |-> error, risk_score |-> 0]

----------------------------------------------------------------------------
(* core/rate_limit.py.  Times are whole seconds. *)

\* RateLimiter(max_requests=..., window_seconds=...)
max_requests == 2
window_seconds == 2

\* "while queue and now - queue[0] > self.window_seconds: queue.popleft()"
RECURSIVE Popleft(_, _)
Popleft(queue, now) ==
    IF queue # <<>> /\ now - queue[1] > window_seconds
    THEN Popleft(Tail(queue), now)
    ELSE queue

\* RateLimiter.check(key), the statements under "with self._lock", for the
\* now read before them: the queues afterwards, and the status code of the
\* HTTPException raised (0 for none)
RateLimiterCheck(h, key, now) ==
    LET queue == Popleft(h[key], now)
    IN IF Len(queue) >= max_requests
       THEN [hits |-> [h EXCEPT ![key] = queue], status_code |-> 429]
       ELSE [hits |-> [h EXCEPT ![key] = Append(queue, now)], status_code |-> 0]

----------------------------------------------------------------------------
(* Inputs *)

Word(w) == [kind |-> "word", word |-> w, amount |-> 0]
Paid(a) == [kind |-> "paid", word |-> "", amount |-> a]
Bid(a) == [kind |-> "bid", word |-> "", amount |-> a]

Vocabulary == {Word("bribe"), Word("secret"), Word("urgent"), Paid(4800), Bid(4900)}

Texts(n) == UNION {[1..k -> Vocabulary] : k \in 0..n}

Date(y, m, d) == [y |-> y, m |-> m, d |-> d]

\* Pre-extracted amounts and dates: none; three round amounts; a Saturday, a
\* string that is no calendar date, a Sunday.
Extras ==
    {[amounts |-> <<>>, dates |-> <<>>],
     [amounts |-> <<1000, 2000, 3000>>, dates |-> <<>>],
     [amounts |-> <<>>, dates |-> <<Date(2024, 1, 6), Date(2024, 2, 30), Date(2024, 1, 7)>>]}

Contexts == {AnalysisContext(t, e.amounts, e.dates) : t \in Texts(MaxTextLen), e \in Extras}

\* KeywordDetector(...) calls made outside an engine.
PlainKeywords == Arg("keywords")

CustomKeywords ==
    [Arg("keywords") EXCEPT !.custom_keywords =
        <<[category |-> "bribery", keywords |-> <<"paid">>],
          [category |-> "internal", keywords |-> <<"secret">>]>>]

KeywordArgs == {PlainKeywords, CustomKeywords}

\* SignalEngine(...) calls: None, the empty list, and explicit lists.
EngineArgs ==
    {[given |-> FALSE, args |-> <<>>],
     [given |-> TRUE, args |-> <<>>],
     [given |-> TRUE, args |-> <<Weighted("urgency", 20), Weighted("keywords", -10)>>],
     [given |-> TRUE,
      args |-> <<Weighted("keywords", 10), Weighted("urgency", 9), Weighted("keywords", 10),
                 Weighted("keywords", 20), Weighted("keywords", 5), Weighted("keywords", 10),
                 Weighted("keywords", 15)>>],
     [given |-> TRUE,
      args |-> <<[Arg("benford") EXCEPT !.min_numbers = 2],
                 [Arg("round_numbers") EXCEPT !.min_amounts = 1],
                 [Arg("split_invoice") EXCEPT !.thresholds = <<5000, -1>>],
                 Weighted("bid_rigging", 0)>>]}

----------------------------------------------------------------------------
(* State machine *)

NoContext == AnalysisContext(<<>>, <<>>, <<>>)
NoResult == Aggregate(<<>>, 0)

Init ==
    /\ KEYWORD_CATEGORIES = DefaultKeywordCategories
    /\ instances = <<>>
    /\ engineBuilt = FALSE
    /\ detectors = <<>>
    /\ requested = [given |-> FALSE, args |-> <<>>]
    /\ callCtx = NoContext
    /\ ctxAfter = NoContext
    /\ lastRes = NoResult
    /\ lastOp = "init"
    /\ pinned = <<>>
    /\ calls = <<>>
    /\ analysis_jobs = <<>>
    /\ reply = NoReply
    /\ bid_amounts = <<>>
    /\ bid_analysis = NotAnalysed
    /\ cases = <<>>
    /\ tasks = <<>>
    /\ clock = 0
    /\ _hits = <<>>
    /\ checks = <<>>

InCall == lastOp \in {"analyze", "analyze_raised"}

\* d = KeywordDetector(custom_keywords=...) somewhere in the process
NewKeywordDetector(arg) ==
    /\ ~InCall
    /\ Len(instances) < MaxInstances
    /\ LET made == KeywordDetectorInit(arg, KEYWORD_CATEGORIES)
       IN /\ instances' = Append(instances, [object |-> made.self, arg |-> arg])
          /\ KEYWORD_CATEGORIES' = made.shared
    /\ lastOp' = "KeywordDetector"
    /\ UNCHANGED <<clock, _hits, checks, cases, tasks, bid_amounts, bid_analysis, analysis_jobs, reply, engineBuilt, detectors, requested, callCtx, ctxAfter, lastRes,
                   pinned, calls>>

\* engine = SignalEngine(None) or SignalEngine([D1(...), ...])
NewSignalEngine(earg) ==
    /\ ~engineBuilt
    /\ ~InCall
    /\ LET objects == NewDetectors(earg.args, KEYWORD_CATEGORIES, <<>>)
           made == SignalEngineInit(earg.given, objects.detectors, objects.shared)
       IN /\ detectors' = made.detectors
          /\ KEYWORD_CATEGORIES' = made.shared
    /\ engineBuilt' = TRUE
    /\ requested' = earg
    /\ lastOp' = "SignalEngine"
    /\ UNCHANGED <<clock, _hits, checks, cases, tasks, bid_amounts, bid_analysis, analysis_jobs, reply, instances, callCtx, ctxAfter, lastRes, pinned, calls>>

\* result = engine.analyze(context)
AnalyzeCall(context) ==
    /\ engineBuilt
    /\ ~InCall
    /\ \E out \in {analyze(detectors, context, KEYWORD_CATEGORIES)} :
          /\ lastRes' = out.value
          /\ ctxAfter' = out.context
          /\ detectors' = out.detectors
          /\ KEYWORD_CATEGORIES' = out.shared
          /\ lastOp' = IF out.raised THEN "analyze_raised" ELSE "analyze"
    /\ callCtx' = context
    /\ UNCHANGED <<clock, _hits, checks, cases, tasks, bid_amounts, bid_analysis, analysis_jobs, reply, instances, engineBuilt, requested, calls>>

Analyze(context) == AnalyzeCall(context) /\ UNCHANGED pinned

\* The caller drops the context and the result of its last call.
Discard ==
    /\ InCall
    /\ callCtx' = NoContext
    /\ ctxAfter' = NoContext
    /\ lastRes' = NoResult
    /\ lastOp' = "idle"
    /\ UNCHANGED <<clock, _hits, checks, cases, tasks, bid_amounts, bid_analysis, analysis_jobs, reply, KEYWORD_CATEGORIES, instances, engineBuilt, detectors, requested,
                   pinned, calls>>

Next ==
    \/ \E arg \in KeywordArgs : NewKeywordDetector(arg)
    \/ \E earg \in EngineArgs : NewSignalEngine(earg)
    \/ \E context \in Contexts : Analyze(context)
    \/ Discard

Spec == Init /\ [][Next]_vars

----------------------------------------------------------------------------
(* Repeated calls: the same machine on short texts, where the caller keeps
   the context and the result of one earlier analyze() call of the engine *)

ShortVocabulary == {Word("urgent"), Paid(4800), Bid(4900)}

ShortTexts == UNION {[1..k -> ShortVocabulary] : k \in 0..MaxShortTextLen}

ShortContexts ==
    {AnalysisContext(t, amounts, <<>>) : t \in ShortTexts, amounts \in {<<>>, <<1000, 2000, 3000>>}}

AnalyzeAgain(context) ==
    /\ AnalyzeCall(context)
    /\ IF pinned = <<>>
       THEN pinned' \in {<<>>, <<[context |-> context, result |-> lastRes']>>}
       ELSE pinned' = pinned

NextRepeat ==
    \/ \E arg \in KeywordArgs : NewKeywordDetector(arg)
    \/ \E earg \in EngineArgs : NewSignalEngine(earg)
    \/ \E context \in ShortContexts : AnalyzeAgain(context)
    \/ Discard

SpecRepeat == Init /\ [][NextRepeat]_vars

----------------------------------------------------------------------------
(* Concurrent calls: two threads inside analyze() of one engine.  A step is
   one iteration of the detector loop; the frame of a call holds its locals
   (context, detector_results), the detectors and the keyword table are the
   objects every call shares. *)

\* The objects as the constructors left them: the KeywordDetector objects of
\* instances first, then the engine built from requested.
RECURSIVE TableAfter(_, _)
TableAfter(args, shared) ==
    IF args = <<>> THEN shared
    ELSE TableAfter(Tail(args), KeywordDetectorInit(Head(args), shared).shared)

Constructed(instanceArgs, earg) ==
    LET objects == NewDetectors(earg.args, TableAfter(instanceArgs, DefaultKeywordCategories), <<>>)
    IN SignalEngineInit(earg.given, objects.detectors, objects.shared)

InstanceArgs == [i \in 1..Len(instances) |-> instances[i].arg]

RECURSIVE InstancesOf(_, _, _)
InstancesOf(args, shared, built) ==
    IF args = <<>> THEN built
    ELSE LET made == KeywordDetectorInit(Head(args), shared)
         IN InstancesOf(Tail(args), made.shared,
                        Append(built, [object |-> made.self, arg |-> Head(args)]))

InitConc ==
    \E earg \in EngineArgs : \E pre \in {<<>>, <<CustomKeywords>>} :
        /\ instances = InstancesOf(pre, DefaultKeywordCategories, <<>>)
        /\ KEYWORD_CATEGORIES = Constructed(pre, earg).shared
        /\ detectors = Constructed(pre, earg).detectors
        /\ engineBuilt = TRUE
        /\ requested = earg
        /\ callCtx = NoContext
        /\ ctxAfter = NoContext
        /\ lastRes = NoResult
        /\ lastOp = "SignalEngine"
        /\ pinned = <<>>
        /\ calls = <<>>
        /\ analysis_jobs = <<>>
        /\ reply = NoReply
        /\ bid_amounts = <<>>
        /\ bid_analysis = NotAnalysed
        /\ cases = <<>>
        /\ tasks = <<>>
        /\ clock = 0
        /\ _hits = <<>>
        /\ checks = <<>>

ConcVocabulary == {Word("urgent"), Paid(4800)}

ConcContexts ==
    {AnalysisContext(t, <<>>, <<>>) :
        t \in UNION {[1..k -> ConcVocabulary] : k \in 0..MaxShortTextLen}}

InFlight(c) == c \in 1..Len(calls) /\ calls[c].results # <<>> /\ ~calls[c].done

\* A thread enters analyze(context): detector_results = [].
Call(context) ==
    /\ Len(calls) < 2
    /\ \A c \in 1..Len(calls) : calls[c].given # context
    /\ calls' = Append(calls,
                       [given |-> context, context |-> context, results |-> <<>>,
                        propagated |-> FALSE, next |-> 1, done |-> FALSE,
                        overlapped |-> FALSE, value |-> NoResult,
                        alone |-> analyze(Constructed(InstanceArgs, requested).detectors,
                                          context,
                                          Constructed(InstanceArgs, requested).shared).value])
    /\ lastOp' = "call"
    /\ UNCHANGED <<clock, _hits, checks, cases, tasks, bid_amounts, bid_analysis, analysis_jobs, reply, KEYWORD_CATEGORIES, instances, engineBuilt, detectors, requested,
                   callCtx, ctxAfter, lastRes, pinned>>

\* Thread c runs the next iteration of its detector loop.
DetectorStep(c) ==
    /\ c \in 1..Len(calls)
    /\ ~calls[c].done
    /\ calls[c].next <= Len(detectors)
    /\ ~calls[c].propagated
    /\ \E after \in {RunDetector([results |-> calls[c].results,
                                    propagated |-> calls[c].propagated,
                                    context |-> calls[c].context, detectors |-> detectors,
                                    shared |-> KEYWORD_CATEGORIES],
                                   calls[c].next)} :
          /\ calls' = [calls EXCEPT ![c].results = after.results,
                                    ![c].propagated = after.propagated,
                                    ![c].context = after.context,
                                    ![c].next = @ + 1,
                                    ![c].overlapped = @ \/ \E o \in 1..Len(calls) : o # c /\ InFlight(o)]
          /\ detectors' = after.detectors
          /\ KEYWORD_CATEGORIES' = after.shared
    /\ lastOp' = "step"
    /\ UNCHANGED <<clock, _hits, checks, cases, tasks, bid_amounts, bid_analysis, analysis_jobs, reply, instances, engineBuilt, requested, callCtx, ctxAfter, lastRes, pinned>>

\* Thread c aggregates its detector_results and returns.
Return(c) ==
    /\ c \in 1..Len(calls)
    /\ ~calls[c].done
    /\ calls[c].next > Len(detectors) \/ calls[c].propagated
    /\ calls' = [calls EXCEPT ![c].done = TRUE,
                              ![c].value = Aggregate(calls[c].results, Len(detectors))]
    /\ lastOp' = "return"
    /\ UNCHANGED <<clock, _hits, checks, cases, tasks, bid_amounts, bid_analysis, analysis_jobs, reply, KEYWORD_CATEGORIES, instances, engineBuilt, detectors, requested,
                   callCtx, ctxAfter, lastRes, pinned>>

NextConc ==
    \/ \E context \in ConcContexts : Call(context)
    \/ \E c \in 1..2 : DetectorStep(c)
    \/ \E c \in 1..2 : Return(c)

SpecConc == InitConc /\ [][NextConc]_vars

----------------------------------------------------------------------------
(* Procurement reviews: the same machine on texts of bids, with engines whose
   weights let the bid-rigging detector dominate, where the high and the
   critical risk levels occur *)

RiskVocabulary == {Bid(200000), Bid(201000), Word("urgent")}

\* Pre-extracted data: none; three round amounts; the amounts and a weekend.
RiskExtras ==
    {[amounts |-> <<>>, dates |-> <<>>],
     [amounts |-> <<1000, 2000, 3000>>, dates |-> <<>>],
     [amounts |-> <<1000, 2000, 3000>>,
      dates |-> <<Date(2024, 1, 6), Date(2024, 1, 7), Date(2024, 1, 13)>>]}

\* One text of three sentences, whose four extracted bids show all five
\* bid patterns.
RiskLongTexts == {<<Bid(200000), Paid(201000), Paid(202000)>>}

RiskContexts ==
    {AnalysisContext(t, e.amounts, e.dates) :
        t \in UNION {[1..k -> RiskVocabulary] : k \in 0..MaxTextLen} \cup RiskLongTexts,
        e \in RiskExtras}

\* SignalEngine(), SignalEngine([BidRiggingDetector()]) and the seven
\* detectors with weight 100.0 on bid_rigging and 0.1 on the others.
RiskEngineArgs ==
    {[given |-> FALSE, args |-> <<>>],
     [given |-> TRUE, args |-> <<Arg("bid_rigging")>>],
     [given |-> TRUE,
      args |-> <<[Weighted("benford", 1) EXCEPT !.min_numbers = 2],
                 [Weighted("round_numbers", 1) EXCEPT !.min_amounts = 1],
                 Weighted("split_invoice", 1), Weighted("bid_rigging", 1000),
                 Weighted("keywords", 1), Weighted("urgency", 1),
                 Weighted("velocity", 1)>>]}

NextRisk ==
    \/ \E earg \in RiskEngineArgs : NewSignalEngine(earg)
    \/ \E context \in RiskContexts : Analyze(context)
    \/ Discard

SpecRisk == Init /\ [][NextRisk]_vars

----------------------------------------------------------------------------
(* Analysis jobs: the calls CaseService makes on its job repository, against
   a backend table.  queue_analysis creates a job, _run_analysis moves it to
   running and then to completed or failed, get_analysis_job reads it.  The
   form of the backend's answer is the backend's choice. *)

signalVars == <<KEYWORD_CATEGORIES, instances, engineBuilt, detectors, requested,
                callCtx, ctxAfter, lastRes, lastOp, pinned, calls,
                bid_amounts, bid_analysis, cases, tasks, clock, _hits, checks>>

\* new_job_id() values, case ids, and datetime.now(timezone.utc).isoformat()
\* at the three moments of a job's life
JobIds == {"j1", "j2", "j3"}
CaseIds == {"c1", "c2"}
QueuedAt == "2026-01-15T00:00:00+00:00"
StartedAt == "2026-01-15T00:00:01+00:00"
CompletedAt == "2026-01-15T00:00:02+00:00"

Forms == {"representation", "object", "empty"}

\* queue_analysis: the record it creates
QueuedRecords ==
    {[job_id |-> j, case_id |-> c, status |-> "queued", queued_at |-> QueuedAt] :
        j \in JobIds, c \in CaseIds}

\* _run_analysis: the records it sends as updates, by the status they follow
UpdateRecords(status) ==
    IF status = "queued" THEN {[status |-> "running", started_at |-> StartedAt]}
    ELSE IF status = "running"
    THEN {[status |-> "completed", completed_at |-> CompletedAt],
          [status |-> "failed", error |-> "Case not found", completed_at |-> CompletedAt]}
    ELSE {}

HasJob(job_id) == \E i \in 1..Len(analysis_jobs) : analysis_jobs[i].job_id = job_id

StatusOf(job_id) ==
    analysis_jobs[CHOOSE i \in 1..Len(analysis_jobs) :
                        analysis_jobs[i].job_id = job_id].status

\* await self.job_repo.create({...}) of queue_analysis
Create(obj_in, form) ==
    /\ Len(analysis_jobs) < MaxJobs
    /\ ~HasJob(obj_in.job_id)
    /\ \E out \in {AnalysisJobRepositoryCreate(analysis_jobs, obj_in, form)} :
          /\ analysis_jobs' = out.table
          /\ reply' = [op |-> "create", job_id |-> obj_in.job_id,
                       input |-> DictOf(obj_in), answer |-> out.answer,
                       job |-> NoneValue, returned |-> out.returned, raised |-> "",
                       before |-> analysis_jobs]
    /\ UNCHANGED signalVars

\* await self.job_repo.update(job_id, {...}) of _run_analysis
Update(job_id, obj_in, form) ==
    /\ HasJob(job_id)
    /\ obj_in \in UpdateRecords(StatusOf(job_id))
    /\ \E out \in {AnalysisJobRepositoryUpdate(analysis_jobs, job_id, obj_in, form)} :
          /\ analysis_jobs' = out.table
          /\ reply' = [op |-> "update", job_id |-> job_id,
                       input |-> DictOf(obj_in), answer |-> out.answer,
                       job |-> NoneValue, returned |-> out.returned, raised |-> "",
                       before |-> analysis_jobs]
    /\ UNCHANGED signalVars

\* An update for a job id the table has no row of.
UpdateMissing(job_id, obj_in, form) ==
    /\ ~HasJob(job_id)
    /\ \E out \in {AnalysisJobRepositoryUpdate(analysis_jobs, job_id, obj_in, form)} :
          /\ analysis_jobs' = out.table
          /\ reply' = [op |-> "update", job_id |-> job_id,
                       input |-> DictOf(obj_in), answer |-> out.answer,
                       job |-> NoneValue, returned |-> out.returned, raised |-> "",
                       before |-> analysis_jobs]
    /\ UNCHANGED signalVars

\* await self.job_repo.get(job_id)
Get(job_id, form) ==
    /\ \E out \in {AnalysisJobRepositoryGet(analysis_jobs, job_id, form)} :
          /\ analysis_jobs' = out.table
          /\ reply' = [op |-> "get", job_id |-> job_id,
                       input |-> NoneValue, answer |-> out.answer,
                       job |-> NoneValue, returned |-> out.returned, raised |-> "",
                       before |-> analysis_jobs]
    /\ UNCHANGED signalVars

\* await service.get_analysis_job(job_id)
GetAnalysisJob(job_id, form) ==
    /\ \E out \in {get_analysis_job(analysis_jobs, job_id, form)} :
          /\ analysis_jobs' = out.table
          /\ reply' = [op |-> "get_analysis_job", job_id |-> job_id,
                       input |-> NoneValue, answer |-> out.answer,
                       job |-> out.job, returned |-> out.returned,
                       raised |-> out.raised, before |-> analysis_jobs]
    /\ UNCHANGED signalVars

NextJobs ==
    \/ \E obj_in \in QueuedRecords : \E form \in Forms : Create(obj_in, form)
    \/ \E job_id \in JobIds :
            \E obj_in \in UpdateRecords("queued") \cup UpdateRecords("running") :
                \E form \in Forms : Update(job_id, obj_in, form)
    \/ \E job_id \in JobIds : \E obj_in \in UpdateRecords("queued") :
            \E form \in Forms : UpdateMissing(job_id, obj_in, form)
    \/ \E job_id \in JobIds : \E form \in {"representation", "empty"} : Get(job_id, form)
    \/ \E job_id \in JobIds : \E form \in {"representation", "empty"} :
            GetAnalysisJob(job_id, form)

SpecJobs == Init /\ [][NextJobs]_vars

----------------------------------------------------------------------------
(* Bid lists: detect_bid_patterns applied to the amounts of a list of
   extracted bids *)

\* Amounts 2% apart, one far above them, and one that is no round thousand.
BidAmounts == {1000, 1020, 1040, 2000}

BidLists == UNION {[1..k -> BidAmounts] : k \in 0..MaxBids}

InitBids ==
    /\ KEYWORD_CATEGORIES = DefaultKeywordCategories
    /\ instances = <<>>
    /\ engineBuilt = FALSE
    /\ detectors = <<>>
    /\ requested = [given |-> FALSE, args |-> <<>>]
    /\ callCtx = NoContext
    /\ ctxAfter = NoContext
    /\ lastRes = NoResult
    /\ lastOp = "init"
    /\ pinned = <<>>
    /\ calls = <<>>
    /\ analysis_jobs = <<>>
    /\ reply = NoReply
    /\ bid_amounts \in BidLists
    /\ bid_analysis = NotAnalysed
    /\ cases = <<>>
    /\ tasks = <<>>
    /\ clock = 0
    /\ _hits = <<>>
    /\ checks = <<>>

\* analysis = detect_bid_patterns(bids)
DetectBidPatterns ==
    /\ bid_analysis = NotAnalysed
    /\ bid_analysis' = detect_bid_patterns(bid_amounts)
    /\ UNCHANGED <<KEYWORD_CATEGORIES, instances, engineBuilt, detectors, requested,
                   callCtx, ctxAfter, lastRes, lastOp, pinned, calls, analysis_jobs,
                   reply, bid_amounts, cases, tasks, clock, _hits, checks>>

NextBids == DetectBidPatterns

SpecBids == InitBids /\ [][NextBids]_vars

----------------------------------------------------------------------------
(* Invoice reviews: the same machine with engines of one SplitInvoiceDetector,
   on contexts whose amounts lie around the approval thresholds *)

\* Below 0.80 x 5000; 0.80 x 5000 itself; inside the band of 5000; 0.99 x 5000
\* itself; inside the bands of 10000 and of 25000.
SplitAmounts == {2000, 4000, 4500, 4800, 4900, 4950, 9000, 9500, 24000, 24500}

SplitAmountLists ==
    {SortedSet(S) : S \in {T \in SUBSET SplitAmounts : Cardinality(T) <= MaxSplitAmounts}}

SplitVocabulary == {Paid(4800)}

SplitContexts ==
    {AnalysisContext(t, amounts, <<>>) :
        t \in UNION {[1..k -> SplitVocabulary] : k \in 0..MaxTextLen},
        amounts \in SplitAmountLists}

\* SignalEngine([SplitInvoiceDetector()]) and
\* SignalEngine([SplitInvoiceDetector(thresholds=[5000.0, 10000.0])])
SplitEngineArgs ==
    {[given |-> TRUE, args |-> <<Arg("split_invoice")>>],
     [given |-> TRUE,
      args |-> <<[Arg("split_invoice") EXCEPT !.thresholds = <<5000, 10000>>]>>]}

NextSplit ==
    \/ \E earg \in SplitEngineArgs : NewSignalEngine(earg)
    \/ \E context \in SplitContexts : Analyze(context)
    \/ Discard

SpecSplit == Init /\ [][NextSplit]_vars

----------------------------------------------------------------------------
(* Ledger reviews: the same machine with engines of one BenfordDetector, on
   contexts of 50 pre-extracted amounts (and some shorter ones) *)

RECURSIVE Copies(_, _)
Copies(x, k) == IF k = 0 THEN <<>> ELSE <<x>> \o Copies(x, k - 1)

\* counts[d] amounts with leading digit d, for d = 1..9
Sample(counts) ==
    Copies(100, counts[1]) \o Copies(200, counts[2]) \o Copies(300, counts[3])
    \o Copies(400, counts[4]) \o Copies(500, counts[5]) \o Copies(600, counts[6])
    \o Copies(700, counts[7]) \o Copies(800, counts[8]) \o Copies(900, counts[9])

\* 50 leading digits spread as Benford's law expects, to the nearest count.
BenfordCounts == <<15, 9, 6, 5, 4, 3, 3, 3, 2>>

\* The same with m amounts moved from digit 1 to digit 9 and j from 2 to 8.
Moved(m, j) ==
    [BenfordCounts EXCEPT ![1] = @ - m, ![9] = @ + m, ![2] = @ - j, ![8] = @ + j]

AllNines(k) == [d \in 1..9 |-> IF d = 9 THEN k ELSE 0]

BenfordSamples ==
    {Sample(Moved(m, j)) : m \in 0..MaxMoved, j \in 0..MaxMoved}
        \cup {Sample(AllNines(k)) : k \in {19, 20, 50}}

BenfordContexts ==
    {AnalysisContext(t, amounts, <<>>) :
        t \in {<<>>, <<Paid(4800)>>}, amounts \in BenfordSamples}

\* SignalEngine([BenfordDetector()]) and SignalEngine([BenfordDetector(min_numbers=52)])
BenfordEngineArgs ==
    {[given |-> TRUE, args |-> <<Arg("benford")>>],
     [given |-> TRUE, args |-> <<[Arg("benford") EXCEPT !.min_numbers = 52]>>]}

NextBenford ==
    \/ \E earg \in BenfordEngineArgs : NewSignalEngine(earg)
    \/ \E context \in BenfordContexts : Analyze(context)
    \/ Discard

SpecBenford == Init /\ [][NextBenford]_vars

----------------------------------------------------------------------------
(* Analysis runs: calls of CaseService.queue_analysis and the background
   tasks they start, interleaved.  A step is one request to the backend
   together with the code that runs up to the next one; the backend applies
   requests one at a time, in any order the coroutines' awaits allow. *)

runVars == <<KEYWORD_CATEGORIES, instances, engineBuilt, detectors, requested,
             callCtx, ctxAfter, lastRes, lastOp, pinned, calls, reply,
             bid_amounts, bid_analysis, clock, _hits, checks>>

\* new_job_id() of the k-th call: a fresh id each time
NewJobId(k) == <<"j1", "j2", "j3", "j4">>[k]

\* One uploaded case with its file, one whose signals name no file, and an
\* id the table holds no row of.
QueueCaseIds == {"c1", "c2", "c9"}

\* extract_text(file_path): some text, or none
ExtractedTexts == {"Invoice 4800", ""}

\* int(score) of compute_risk_score(text)
RiskScores == {35}

\* format_explanation(...) after sanitize_output
FinalExplanation == "Risk factors identified"

\* The backend's answer to a request: 2xx, or a status raise_for_status()
\* turns into httpx.HTTPStatusError.
Responses == {"ok", "error"}

InitRuns ==
    /\ KEYWORD_CATEGORIES = DefaultKeywordCategories
    /\ instances = <<>>
    /\ engineBuilt = FALSE
    /\ detectors = <<>>
    /\ requested = [given |-> FALSE, args |-> <<>>]
    /\ callCtx = NoContext
    /\ ctxAfter = NoContext
    /\ lastRes = NoResult
    /\ lastOp = "init"
    /\ pinned = <<>>
    /\ calls = <<>>
    /\ analysis_jobs = <<>>
    /\ reply = NoReply
    /\ bid_amounts = <<>>
    /\ bid_analysis = NotAnalysed
    /\ cases = <<Uploaded("c1", "uploads/c1.pdf"), Uploaded("c2", None)>>
    /\ tasks = <<>>
    /\ clock = 0
    /\ _hits = <<>>
    /\ checks = <<>>

At(k, pc) == k \in 1..Len(tasks) /\ tasks[k].pc = pc

\* queue_analysis(case_id) up to "await self.job_repo.create"
QueueAnalysis(case_id) ==
    /\ Len(tasks) < MaxQueued
    /\ \E existing \in {CaseRepositoryGet(cases, case_id)} :
        \E job_id \in {NewJobId(Len(tasks) + 1)} :
          tasks' = Append(tasks,
                     IF existing = <<>>
                     THEN Task(case_id, None, "CaseNotFound", NoSignals, None)
                     ELSE Task(case_id, job_id, "create_job",
                               [existing[1].signals EXCEPT !.analysis_job_id = job_id],
                               None))
    /\ UNCHANGED <<cases, analysis_jobs>>
    /\ UNCHANGED runVars

\* await self.job_repo.create({... "status": "queued" ...})
CreateJob(k) ==
    /\ At(k, "create_job")
    /\ analysis_jobs' =
          AnalysisJobRepositoryCreate(analysis_jobs,
              [job_id |-> tasks[k].job_id, case_id |-> tasks[k].case_id,
               status |-> "queued", queued_at |-> QueuedAt],
              "representation").table
    /\ tasks' = [tasks EXCEPT ![k].pc = Then(@)]
    /\ UNCHANGED cases
    /\ UNCHANGED runVars

\* await self.repository.update(case_id, {"status": "processing", ...}) and
\* asyncio.create_task(self._run_analysis(case_id, job_id))
QueueUpdateCase(k) ==
    /\ At(k, "update_case")
    /\ cases' = CaseRepositoryUpdate(cases, tasks[k].case_id,
                    [status |-> "processing", signals |-> tasks[k].signals])
    /\ tasks' = [tasks EXCEPT ![k].pc = Then(@)]
    /\ UNCHANGED analysis_jobs
    /\ UNCHANGED runVars

\* _run_analysis: await self.job_repo.update(job_id, {"status": "running", ...})
MarkRunning(k) ==
    /\ At(k, "mark_running")
    /\ analysis_jobs' =
          AnalysisJobRepositoryUpdate(analysis_jobs, tasks[k].job_id,
              [status |-> "running", started_at |-> StartedAt],
              "representation").table
    /\ tasks' = [tasks EXCEPT ![k].pc = Then(@)]
    /\ UNCHANGED cases
    /\ UNCHANGED runVars

\* await use_case.execute(case_id), up to the update it sends: a backend error
\* on its get is no DomainError and leaves _run_analysis
Execute(k, text, score, response) ==
    /\ At(k, "execute")
    /\ \E out \in {AnalyzeCaseExecute(CaseRepositoryGet(cases, tasks[k].case_id),
                                      text, score)} :
          tasks' = [tasks EXCEPT ![k] =
                      IF response = "error" THEN [@ EXCEPT !.pc = "crashed"]
                      ELSE IF out.raised = ""
                      THEN [@ EXCEPT !.pc = "write_analyzed",
                                     !.signals = out.signals,
                                     !.risk_score = out.risk_score]
                      ELSE [@ EXCEPT !.pc = "reread_case", !.error = out.error]]
    /\ UNCHANGED <<cases, analysis_jobs>>
    /\ UNCHANGED runVars

\* execute: return await self.repository.update(case_id, update_data)
WriteAnalyzed(k, response) ==
    /\ At(k, "write_analyzed")
    /\ IF response = "error"
       THEN /\ tasks' = [tasks EXCEPT ![k].pc = "crashed"]
            /\ UNCHANGED cases
       ELSE /\ cases' = CaseRepositoryUpdate(cases, tasks[k].case_id,
                            [status |-> "analyzed", risk_score |-> tasks[k].risk_score,
                             signals |-> tasks[k].signals,
                             explanation |-> FinalExplanation])
            /\ tasks' = [tasks EXCEPT ![k].pc = Then(@)]
    /\ UNCHANGED analysis_jobs
    /\ UNCHANGED runVars

\* await self.job_repo.update(job_id, {"status": "completed", ...})
MarkCompleted(k) ==
    /\ At(k, "mark_completed")
    /\ analysis_jobs' =
          AnalysisJobRepositoryUpdate(analysis_jobs, tasks[k].job_id,
              [status |-> "completed", completed_at |-> CompletedAt],
              "representation").table
    /\ tasks' = [tasks EXCEPT ![k].pc = Then(@)]
    /\ UNCHANGED cases
    /\ UNCHANGED runVars

\* except DomainError: existing = await self.repository.get(case_id), and the
\* signals built from it
RereadCase(k) ==
    /\ At(k, "reread_case")
    /\ \E existing \in {CaseRepositoryGet(cases, tasks[k].case_id)} :
          tasks' = [tasks EXCEPT
                      ![k].pc = Then(@),
                      ![k].signals =
                          [(IF existing = <<>> THEN NoSignals ELSE existing[1].signals)
                              EXCEPT !.analysis_error = tasks[k].error]]
    /\ UNCHANGED <<cases, analysis_jobs>>
    /\ UNCHANGED runVars

\* await self.repository.update(case_id, {"status": "failed", ...})
WriteFailed(k) ==
    /\ At(k, "write_failed")
    /\ cases' = CaseRepositoryUpdate(cases, tasks[k].case_id,
                    [status |-> "failed", explanation |-> tasks[k].error,
                     signals |-> tasks[k].signals])
    /\ tasks' = [tasks EXCEPT ![k].pc = Then(@)]
    /\ UNCHANGED analysis_jobs
    /\ UNCHANGED runVars

\* await self.job_repo.update(job_id, {"status": "failed", "error": str(e), ...})
MarkFailed(k) ==
    /\ At(k, "mark_failed")
    /\ analysis_jobs' =
          AnalysisJobRepositoryUpdate(analysis_jobs, tasks[k].job_id,
              [status |-> "failed", error |-> tasks[k].error,
               completed_at |-> CompletedAt],
              "representation").table
    /\ tasks' = [tasks EXCEPT ![k].pc = Then(@)]
    /\ UNCHANGED cases
    /\ UNCHANGED runVars

\* The next step of the k-th call or of the task it started.
Step(k) ==
    \/ CreateJob(k)
    \/ QueueUpdateCase(k)
    \/ MarkRunning(k)
    \/ \E text \in ExtractedTexts : \E score \in RiskScores :
          \E response \in Responses : Execute(k, text, score, response)
    \/ \E response \in Responses : WriteAnalyzed(k, response)
    \/ MarkCompleted(k)
    \/ RereadCase(k)
    \/ WriteFailed(k)
    \/ MarkFailed(k)

NextRuns ==
    \/ \E case_id \in QueueCaseIds : QueueAnalysis(case_id)
    \/ \E k \in 1..MaxQueued : Step(k)

SpecRuns == InitRuns /\ [][NextRuns]_vars

\* The event loop runs every task that is ready: a coroutine whose request
\* has been answered takes its next step.
SpecRunsFair == SpecRuns /\ \A k \in 1..MaxQueued : WF_vars(Step(k))

----------------------------------------------------------------------------
(* Rate limiting: threads calling check() of one RateLimiter.  A call reads
   the clock, then waits for the lock; the statements under the lock are one
   step. *)

\* request.client.host of two clients
Keys == {"10.0.0.1", "10.0.0.2"}

limiterVars == <<KEYWORD_CATEGORIES, instances, engineBuilt, detectors, requested,
                 callCtx, ctxAfter, lastRes, lastOp, pinned, calls, analysis_jobs,
                 reply, bid_amounts, bid_analysis, cases, tasks>>

InitLimiter ==
    /\ KEYWORD_CATEGORIES = DefaultKeywordCategories
    /\ instances = <<>>
    /\ engineBuilt = FALSE
    /\ detectors = <<>>
    /\ requested = [given |-> FALSE, args |-> <<>>]
    /\ callCtx = NoContext
    /\ ctxAfter = NoContext
    /\ lastRes = NoResult
    /\ lastOp = "init"
    /\ pinned = <<>>
    /\ calls = <<>>
    /\ analysis_jobs = <<>>
    /\ reply = NoReply
    /\ bid_amounts = <<>>
    /\ bid_analysis = NotAnalysed
    /\ cases = <<>>
    /\ tasks = <<>>
    /\ clock = 0
    /\ _hits = [key \in Keys |-> <<>>]
    /\ checks = <<>>

\* A second passes.
Tick ==
    /\ clock < MaxClock
    /\ clock' = clock + 1
    /\ UNCHANGED <<_hits, checks>>
    /\ UNCHANGED limiterVars

\* check(key): "now = time.time()"
ReadClock(key) ==
    /\ Len(checks) < MaxChecks
    /\ checks' = Append(checks, [key |-> key, now |-> clock, at |-> "lock"])
    /\ UNCHANGED <<clock, _hits>>
    /\ UNCHANGED limiterVars

\* check(key): "with self._lock: ..." of the i-th call
UnderLock(i) ==
    /\ i \in 1..Len(checks)
    /\ checks[i].at = "lock"
    /\ \E out \in {RateLimiterCheck(_hits, checks[i].key, checks[i].now)} :
          /\ _hits' = out.hits
          /\ checks' = [checks EXCEPT ![i].at = IF out.status_code = 429 THEN "rejected"
                                                ELSE "accepted"]
    /\ UNCHANGED clock
    /\ UNCHANGED limiterVars

NextLimiter ==
    \/ Tick
    \/ \E key \in Keys : ReadClock(key)
    \/ \E i \in 1..MaxChecks : UnderLock(i)

SpecLimiter == InitLimiter /\ [][NextLimiter]_vars

----------------------------------------------------------------------------
(* Properties *)

Triggered(results) == {i \in 1..Len(results) : results[i].score > 0}

HasError(r) == "error" \in Range(r.indicators)

\* The arguments the engine's detectors were built from.
RequestedArgs ==
    IF requested.given /\ requested.args # <<>> THEN requested.args ELSE _default_detectors

\* The keyword lists a KeywordDetector object reads, by category.
Keywords(object, shared) ==
    [i \in 1..Len(object.categories) |->
        [category |-> object.categories[i].category,
         keywords |-> Config(object.categories[i], shared).keywords]]

\* The keyword lists of a KeywordDetector built from arg with nothing else
\* in the process.
OwnKeywords(arg) ==
    Keywords(KeywordDetectorInit(arg, DefaultKeywordCategories).self,
             KeywordDetectorInit(arg, DefaultKeywordCategories).shared)

\* C1: an exception raised by a detector's detect() never leaves analyze();
\* every detector of the list has an entry in detector_results, the entry of
\* a raising detector has score 0, confidence 0 and an "error" indicator, the
\* entry of any other detector is what its detect() returned, and the result
\* is the aggregation of these entries.
C1_DetectorFailureIsolated ==
    InCall =>
        /\ lastOp = "analyze"
        /\ Len(lastRes.detector_results) = Len(detectors)
        /\ lastRes.signals.detectors_run = Len(detectors)
        /\ \A i \in 1..Len(detectors) :
            LET out == Detect(detectors[i], callCtx, KEYWORD_CATEGORIES)
                r == lastRes.detector_results[i]
            IN IF out.raised
               THEN /\ r.detector_name = detectors[i].name
                    /\ r.score = 0
                    /\ r.confidence = 0
                    /\ r.weight = detectors[i].weight
                    /\ HasError(r)
               ELSE r = out.result
        /\ lastRes = Aggregate(lastRes.detector_results, Len(detectors))

\* A detector raised, a detector after it in the list triggered, and the
\* call returned a positive risk score.
C1_Witness ==
    /\ lastOp = "analyze"
    /\ \E i \in 1..Len(lastRes.detector_results) :
        /\ HasError(lastRes.detector_results[i])
        /\ Detect(detectors[i], callCtx, KEYWORD_CATEGORIES).raised
        /\ \E j \in (i + 1)..Len(lastRes.detector_results) :
                lastRes.detector_results[j].score > 0
    /\ lastRes.risk_score > 0

\* C2: whatever KeywordDetector objects have been constructed, the module
\* table KEYWORD_CATEGORIES holds the default lists, and every KeywordDetector
\* object (built directly or inside the engine) reads the default lists
\* extended by its own custom_keywords only.
C2_KeywordInstancesIndependent ==
    /\ KEYWORD_CATEGORIES = DefaultKeywordCategories
    /\ \A i \in 1..Len(instances) :
            Keywords(instances[i].object, KEYWORD_CATEGORIES) = OwnKeywords(instances[i].arg)
    /\ engineBuilt =>
        \A i \in 1..Len(detectors) :
            detectors[i].name = "keywords" =>
                Keywords(detectors[i], KEYWORD_CATEGORIES) = OwnKeywords(RequestedArgs[i])

\* C3: risk_score = floor(min(sum(score*weight*confidence) / sum(weight), 100))
\* with both sums over the results with score > 0, and 0 when no result has
\* score > 0.  (Sums in the model's units: the quotient is scaled by 1000.)
C3_RiskScoreIsWeightedMean ==
    InCall =>
        LET rs == lastRes.detector_results
            num == SumSeq([i \in 1..Len(rs) |->
                            IF rs[i].score > 0 THEN Contribution(rs[i]) ELSE 0])
            den == SumSeq([i \in 1..Len(rs) |->
                            IF rs[i].score > 0 THEN rs[i].weight ELSE 0])
        IN /\ Triggered(rs) = {} => lastRes.risk_score = 0
           /\ den > 0 => lastRes.risk_score = Min2(num \div (1000 * den), 100)
           /\ den < 0 => lastRes.risk_score = Min2((0 - num) \div (1000 * (0 - den)), 100)

\* C4: top_factors has at most 5 entries, each the entry of a result with
\* score > 0, in descending order of score*weight*confidence, results with
\* equal products in the order of the detector list; no result left out has
\* a larger product than one that is in.
C4_TopFactorsRanked ==
    InCall =>
        LET rs == lastRes.detector_results
            tf == lastRes.top_factors
        IN /\ Len(tf) <= 5
           /\ Len(tf) = Min2(5, Cardinality(Triggered(rs)))
           /\ \A k \in 1..Len(tf) :
                /\ tf[k].position \in Triggered(rs)
                /\ tf[k].detector = rs[tf[k].position].detector_name
                /\ tf[k].detector = detectors[tf[k].position].name
           /\ \A k, l \in 1..Len(tf) :
                k < l =>
                    /\ Contribution(rs[tf[k].position]) >= Contribution(rs[tf[l].position])
                    /\ Contribution(rs[tf[k].position]) = Contribution(rs[tf[l].position])
                        => tf[k].position < tf[l].position
           /\ \A i \in Triggered(rs) :
                (\A k \in 1..Len(tf) : tf[k].position # i) =>
                    \A k \in 1..Len(tf) :
                        /\ Contribution(rs[tf[k].position]) >= Contribution(rs[i])
                        /\ Contribution(rs[tf[k].position]) = Contribution(rs[i])
                            => tf[k].position < i

\* More than five detectors triggered, and two of the five kept have equal
\* products.
C4_Witness ==
    /\ lastOp = "analyze"
    /\ Len(lastRes.top_factors) = 5
    /\ Cardinality(Triggered(lastRes.detector_results)) > 5
    /\ \E k, l \in 1..Len(lastRes.top_factors) :
        /\ k < l
        /\ Contribution(lastRes.detector_results[lastRes.top_factors[k].position])
            = Contribution(lastRes.detector_results[lastRes.top_factors[l].position])

\* C5: no analyze() call runs on an engine holding a detector with a
\* negative weight or a SplitInvoiceDetector whose thresholds are not all
\* positive: such a configuration was rejected at construction.
C5_BadConfigurationRejected ==
    InCall =>
        \A i \in 1..Len(detectors) :
            /\ detectors[i].weight >= 0
            /\ \A t \in 1..Len(detectors[i].thresholds) : detectors[i].thresholds[t] > 0

\* C6: on the default ensemble no detect() raises, whatever the context, so
\* no entry of detector_results carries an "error" indicator.
C6_DefaultDetectorsNeverRaise ==
    (InCall /\ RequestedArgs = _default_detectors) =>
        \A i \in 1..Len(detectors) :
            /\ ~Detect(detectors[i], callCtx, KEYWORD_CATEGORIES).raised
            /\ ~HasError(lastRes.detector_results[i])

\* C7: an analyze() call with the context of an earlier call of the same
\* engine returns the value the earlier call returned.
C7_AnalyzeDeterministic ==
    (InCall /\ pinned # <<>> /\ pinned[1].context = callCtx) =>
        /\ lastOp = "analyze"
        /\ lastRes = pinned[1].result

\* C8: under every interleaving of the detector steps of two analyze() calls
\* of one engine, a call that has returned has returned what it returns when
\* run alone, and no call loses a detector step: a call that has made k steps
\* holds k results.
C8_ConcurrentCallsIndependent ==
    \A c \in 1..Len(calls) :
        /\ ~calls[c].propagated
        /\ Len(calls[c].results) = calls[c].next - 1
        /\ calls[c].context = calls[c].given
        /\ calls[c].done =>
            /\ Len(calls[c].results) = Len(detectors)
            /\ calls[c].value = calls[c].alone

\* Two calls with different contexts have returned, their detector steps
\* were interleaved, and a detector raised in one of them.
C8_Witness ==
    /\ Len(calls) = 2
    /\ calls[1].given # calls[2].given
    /\ \A c \in 1..2 : calls[c].done /\ calls[c].overlapped
    /\ \E c \in 1..2 : \E i \in 1..Len(calls[c].results) : HasError(calls[c].results[i])
    /\ calls[1].value # calls[2].value

\* C9: an analyze() call, hence the detect() of each detector it runs,
\* leaves the context it was given, the detector objects and the keyword
\* table as they were, whether detect() returns or raises.
C9_DetectLeavesInputsUnchanged ==
    [][(~InCall /\ lastOp' \in {"analyze", "analyze_raised"}) =>
            /\ ctxAfter' = callCtx'
            /\ detectors' = detectors
            /\ KEYWORD_CATEGORIES' = KEYWORD_CATEGORIES
            /\ \A i \in 1..Len(detectors) :
                LET out == Detect(detectors[i], callCtx', KEYWORD_CATEGORIES)
                IN /\ out.context = callCtx'
                   /\ out.self = detectors[i]
                   /\ out.shared = KEYWORD_CATEGORIES]_vars

\* A call on a context with pre-extracted amounts and amounts in its text,
\* on an engine with configured detectors (min_amounts, thresholds, custom
\* weight), one of which triggered and one of which raised.
C9_Witness ==
    /\ lastOp = "analyze"
    /\ callCtx.amounts # <<>>
    /\ extract_monetary_amounts(callCtx.text) # <<>>
    /\ \E i \in 1..Len(detectors) : detectors[i].thresholds # <<>>
    /\ \E i \in 1..Len(detectors) : detectors[i].name = "round_numbers"
    /\ \E i \in 1..Len(detectors) : detectors[i].name = "keywords"
    /\ Triggered(lastRes.detector_results) # {}
    /\ \E i \in 1..Len(lastRes.detector_results) : HasError(lastRes.detector_results[i])

\* C10: analyze() returns 0 <= risk_score <= 100 and 0 <= confidence <= 1
\* (confidence in hundredths) on every engine that could be constructed.
C10_ResultInRange ==
    InCall =>
        /\ 0 <= lastRes.risk_score /\ lastRes.risk_score <= 100
        /\ 0 <= lastRes.confidence /\ lastRes.confidence <= 100

\* C11: the risk_level of every analyze() result follows from its risk_score:
\* critical iff risk_score >= 75, high iff 50 <= risk_score < 75, medium iff
\* 25 <= risk_score < 50, low iff risk_score < 25.
C11_RiskLevelFromScore ==
    InCall =>
        /\ lastRes.risk_level \in {"low", "medium", "high", "critical"}
        /\ lastRes.risk_level = "critical" <=> lastRes.risk_score >= 75
        /\ lastRes.risk_level = "high" <=>
                (50 <= lastRes.risk_score /\ lastRes.risk_score < 75)
        /\ lastRes.risk_level = "medium" <=>
                (25 <= lastRes.risk_score /\ lastRes.risk_score < 50)
        /\ lastRes.risk_level = "low" <=> lastRes.risk_score < 25

\* A call on the default engine returned a risk_score between 50 and 75.
C11_Witness ==
    /\ lastOp = "analyze"
    /\ ~requested.given
    /\ lastRes.risk_score >= 50
    /\ lastRes.risk_score < 75
    /\ lastRes.risk_level = "high"

\* C12: when every entry of detector_results has score 0, returned by its
\* detector or synthesised from a failure, analyze() returns risk_score 0,
\* risk_level "low", confidence 0.5, no top factor and detectors_triggered 0.
C12_NothingTriggered ==
    (InCall /\ \A i \in 1..Len(lastRes.detector_results) :
                    lastRes.detector_results[i].score = 0) =>
        /\ lastOp = "analyze"
        /\ lastRes.risk_score = 0
        /\ lastRes.risk_level = "low"
        /\ lastRes.confidence = 50
        /\ lastRes.top_factors = <<>>
        /\ lastRes.signals.detectors_triggered = 0

\* Seven detectors ran, none scored, and one of the zero scores stands for
\* a detector that raised.
C12_Witness ==
    /\ lastOp = "analyze"
    /\ Len(lastRes.detector_results) = 7
    /\ \A i \in 1..Len(lastRes.detector_results) : lastRes.detector_results[i].score = 0
    /\ \E i \in 1..Len(lastRes.detector_results) : HasError(lastRes.detector_results[i])
    /\ \E i \in 1..Len(lastRes.detector_results) :
            ~HasError(lastRes.detector_results[i])
            /\ lastRes.detector_results[i].confidence # 50
    /\ lastRes.confidence = 50

\* C13: when at least one detector scored > 0, the confidence analyze()
\* returns is the mean of the confidences of the results with score > 0,
\* to the two decimals it is rounded to.
C13_ConfidenceIsMeanOfTriggered ==
    (InCall /\ Triggered(lastRes.detector_results) # {}) =>
        LET rs == lastRes.detector_results
            n == Cardinality(Triggered(rs))
            total == SumSeq([i \in 1..Len(rs) |->
                                IF rs[i].score > 0 THEN rs[i].confidence ELSE 0])
        IN /\ 2 * (n * lastRes.confidence - total) <= n
           /\ 2 * (total - n * lastRes.confidence) <= n

\* C14: every SignalResult a detector returns from detect() has
\* 0 <= score <= 100 (in tenths) and 0 <= confidence <= 1 (in hundredths),
\* whatever the detector's configuration and the context.
C14_SignalResultInRange ==
    InCall =>
        \A i \in 1..Len(lastRes.detector_results) :
            LET r == lastRes.detector_results[i]
            IN ~HasError(r) =>
                /\ 0 <= r.score /\ r.score <= 1000
                /\ 0 <= r.confidence /\ r.confidence <= 100

\* The bid detector found all five patterns: its score and its confidence
\* are the largest it can return.
C14_Witness ==
    /\ lastOp = "analyze"
    /\ callCtx.text \in RiskLongTexts
    /\ \E i \in 1..Len(detectors) :
            /\ detectors[i].name = "bid_rigging"
            /\ lastRes.detector_results[i].score = 1000
            /\ lastRes.detector_results[i].confidence = 95

\* C15: when risk_level is high or critical, recommendations has at most
\* five entries, the first is the supervisor review and the last is the
\* forensic audit, however many detectors triggered; when risk_level is low
\* or medium neither of the two appears.
C15_GeneralRecommendationsFrameTheList ==
    InCall =>
        LET recs == lastRes.recommendations
        IN IF lastRes.risk_level \in {"high", "critical"}
           THEN /\ Len(recs) <= 5
                /\ recs # <<>>
                /\ recs[1] = "supervisor_review"
                /\ recs[Len(recs)] = "forensic_audit"
           ELSE /\ "supervisor_review" \notin Range(recs)
                /\ "forensic_audit" \notin Range(recs)

\* C16: detector_results has exactly one entry per configured detector, in
\* registration order, for the detectors that scored 0 or raised too;
\* detectors_run is the number of entries; and when the detectors' names
\* are pairwise different, detector_breakdown has one entry per name,
\* holding that detector's score, weight, confidence and indicators.
C16_OneEntryPerDetector ==
    InCall =>
        LET rs == lastRes.detector_results
            breakdown == lastRes.signals.detector_breakdown
            names == {detectors[i].name : i \in 1..Len(detectors)}
        IN /\ Len(rs) = Len(detectors)
           /\ \A i \in 1..Len(rs) : rs[i].detector_name = detectors[i].name
           /\ lastRes.signals.detectors_run = Len(rs)
           /\ Cardinality(names) = Len(detectors) =>
                /\ DOMAIN breakdown = names
                /\ \A i \in 1..Len(rs) :
                        breakdown[rs[i].detector_name] =
                            [score |-> rs[i].score, weight |-> rs[i].weight,
                             confidence |-> rs[i].confidence,
                             indicators |-> rs[i].indicators]

\* An engine of several detectors with different names returned: one
\* detector raised, one scored 0 without raising, one scored above 0.
C16_Witness ==
    /\ lastOp = "analyze"
    /\ Len(detectors) >= 3
    /\ Cardinality({detectors[i].name : i \in 1..Len(detectors)}) = Len(detectors)
    /\ \E i, j, k \in 1..Len(lastRes.detector_results) :
            /\ HasError(lastRes.detector_results[i])
            /\ ~HasError(lastRes.detector_results[j])
            /\ lastRes.detector_results[j].score = 0
            /\ lastRes.detector_results[k].score > 0

\* C17: get_analysis_job raises AnalysisJobNotFound when the job repository
\* returns no row for the job id; otherwise it returns a result whose job_id,
\* case_id, status, error and timestamps are those of the stored job; and the
\* call leaves the table of jobs as it was.
C17_GetAnalysisJobReadsTheStoredJob ==
    reply.op = "get_analysis_job" =>
        /\ analysis_jobs = reply.before
        /\ IF reply.job.type = "NoneType"
           THEN /\ reply.raised = "AnalysisJobNotFound"
                /\ reply.returned = NoneValue
           ELSE /\ reply.raised = ""
                /\ reply.returned.type = "dict"
                /\ \E i \in 1..Len(analysis_jobs) :
                      /\ analysis_jobs[i].job_id = reply.job_id
                      /\ reply.job = DictOf(analysis_jobs[i])
                      /\ \A c \in Columns :
                            reply.returned.items[1][c] = analysis_jobs[i][c]

\* The job read is the second of two stored jobs and has failed: its error
\* and its three timestamps are set.
C17_Witness ==
    /\ reply.op = "get_analysis_job"
    /\ reply.raised = ""
    /\ Len(analysis_jobs) = 2
    /\ analysis_jobs[2].job_id = reply.job_id
    /\ reply.returned.items[1].status = "failed"
    /\ reply.returned.items[1].error # None
    /\ reply.returned.items[1].queued_at = QueuedAt
    /\ reply.returned.items[1].started_at = StartedAt
    /\ reply.returned.items[1].completed_at = CompletedAt

\* C18: create and update return the first row of the backend's answer when
\* it is a non-empty list, the answer itself when it is a mapping, and the
\* input record otherwise; get returns the first row of the table that has
\* the job id, or None when the backend returned no rows.
C18_RepositoryReturnsTheBackendsRow ==
    /\ reply.op \in {"create", "update"} =>
            reply.returned =
                IF reply.answer.type = "list" /\ reply.answer.items # <<>>
                THEN DictOf(reply.answer.items[1])
                ELSE IF reply.answer.type = "dict" THEN reply.answer
                ELSE reply.input
    /\ reply.op = "get" =>
            IF reply.answer.items = <<>>
            THEN reply.returned = NoneValue
            ELSE \E i \in 1..Len(reply.before) :
                    /\ reply.before[i].job_id = reply.job_id
                    /\ \A j \in 1..(i - 1) : reply.before[j].job_id # reply.job_id
                    /\ reply.returned = DictOf(reply.before[i])

\* An update of the second of two jobs was answered with the list of the
\* rows it changed: the row returned has the columns the input left out.
C18_Witness ==
    /\ reply.op = "update"
    /\ Len(reply.before) = 2
    /\ reply.before[2].job_id = reply.job_id
    /\ reply.answer.type = "list"
    /\ reply.answer.items # <<>>
    /\ reply.returned = DictOf(analysis_jobs[2])
    /\ reply.returned # reply.input

\* C19: "complementary_bids" is reported only when there are at least two
\* losing bids, the losing bids lie within 5% of each other, and the losing
\* bids are not the winning (highest) amount over again; a list of bids
\* that are all equal is not reported as complementary.
C19_ComplementaryNeedsADistinctWinner ==
    (bid_analysis # NotAnalysed
     /\ "complementary_bids" \in Range(bid_analysis.patterns_found)) =>
        LET sorted_amounts == sorted(bid_amounts)
            winning == sorted_amounts[Len(sorted_amounts)]
            losing == SubSeq(sorted_amounts, 1, Len(sorted_amounts) - 1)
        IN /\ Len(losing) >= 2
           /\ 100 * (MaxOfSeq(losing) - MinOfSeq(losing)) < 5 * winning
           /\ MinOfSeq(losing) < winning

\* C20: "sequential_bids" is reported exactly when some positive difference
\* between consecutive sorted bid amounts occurs at least twice, however
\* many equal amounts (zero differences) the list has besides.
C20_SequentialIffRepeatedPositiveDifference ==
    bid_analysis # NotAnalysed =>
        LET sorted_amounts == sorted(bid_amounts)
            diffs == [i \in 1..(Len(sorted_amounts) - 1) |->
                        sorted_amounts[i + 1] - sorted_amounts[i]]
        IN "sequential_bids" \in Range(bid_analysis.patterns_found)
            <=> \E i \in 1..Len(diffs) : diffs[i] > 0 /\ Count(diffs, diffs[i]) >= 2

\* The distinct amounts a SplitInvoiceDetector sees in the context of the
\* last call: the dollar amounts of the text within 100..1000000 and the
\* pre-extracted amounts.
SeenAmounts ==
    {a \in Range(DollarAmounts(callCtx.text)) : 100 <= a /\ a <= 1000000}
        \cup Range(callCtx.amounts)

\* The amounts within [0.80 x T, 0.99 x T).
Band(T) == {a \in SeenAmounts : 80 * T <= 100 * a /\ 100 * a < 99 * T}

\* C21: with at least 2 distinct amounts, SplitInvoiceDetector scores by the
\* number of suspicious clusters (>= 2 amounts within [0.80 T, 0.99 T) that
\* sum to more than T) and the number of amounts in them: >= 3 or >= 6 -> 40,
\* else >= 2 or >= 4 -> 30, else >= 1 or >= 2 -> 20, else 0; with fewer than
\* 2 distinct amounts the score is 0 and the confidence 0.3.
C21_SplitScoreTiers ==
    (lastOp = "analyze" /\ Len(detectors) = 1 /\ detectors[1].name = "split_invoice") =>
        LET thresholds == detectors[1].thresholds
            suspicious == {i \in 1..Len(thresholds) :
                              /\ Cardinality(Band(thresholds[i])) >= 2
                              /\ SumSet(Band(thresholds[i])) > thresholds[i]}
            clusters == Cardinality(suspicious)
            members == SumSeq([i \in 1..Len(thresholds) |->
                                  IF i \in suspicious
                                  THEN Cardinality(Band(thresholds[i])) ELSE 0])
            r == lastRes.detector_results[1]
        IN IF Cardinality(SeenAmounts) < 2
           THEN r.score = 0 /\ r.confidence = 30
           ELSE r.score = IF clusters >= 3 \/ members >= 6 THEN 400
                          ELSE IF clusters >= 2 \/ members >= 4 THEN 300
                          ELSE IF clusters >= 1 \/ members >= 2 THEN 200
                          ELSE 0

\* The text says "paid $4,800", 4900 is the one pre-extracted amount, and
\* the detector with the default thresholds scored 20.
C21_Witness ==
    /\ lastOp = "analyze"
    /\ Len(detectors) = 1
    /\ detectors[1].name = "split_invoice"
    /\ detectors[1].thresholds = DefaultThresholds
    /\ callCtx.text = <<Paid(4800)>>
    /\ callCtx.amounts = <<4900>>
    /\ lastRes.detector_results[1].score = 200

\* C30: when the thresholds are positive, every cluster detect_split_pattern
\* records in clusters_below_threshold is recorded in suspicious_splits too,
\* total_suspicious is the summed size of all clusters, and the detector's
\* score is above 0 exactly when there is a cluster.
C30_EveryClusterIsSuspicious ==
    (/\ lastOp = "analyze" /\ Len(detectors) = 1
     /\ detectors[1].name = "split_invoice"
     /\ \A i \in 1..Len(detectors[1].thresholds) : detectors[1].thresholds[i] > 0) =>
        LET split_results == detect_split_pattern(SeenAmounts, detectors[1].thresholds)
            clusters == split_results.clusters_below_threshold
            splits == split_results.suspicious_splits
        IN /\ Len(splits) = Len(clusters)
           /\ \A i \in 1..Len(clusters) :
                /\ splits[i].threshold = clusters[i].threshold
                /\ splits[i].split_amounts = clusters[i].amounts_below
           /\ split_results.total_suspicious =
                SumSeq([i \in 1..Len(clusters) |-> Cardinality(clusters[i].amounts_below)])
           /\ lastRes.detector_results[1].score > 0 <=> clusters # <<>>

\* Two clusters, below 5000 and below 10000, were found in one call, and
\* another amount of the context lies in no band.
C30_Witness ==
    /\ lastOp = "analyze"
    /\ Len(detectors) = 1
    /\ detectors[1].name = "split_invoice"
    /\ Len(detect_split_pattern(SeenAmounts, detectors[1].thresholds).clusters_below_threshold) = 2
    /\ 2000 \in SeenAmounts
    /\ lastRes.detector_results[1].score = 300

\* The leading digits a BenfordDetector has for the context of the last call.
SeenDigits ==
    LET nums == SelectSeq(DollarAmounts(callCtx.text) \o callCtx.amounts,
                          LAMBDA a : a >= 10)
    IN [i \in 1..Len(nums) |-> LeadingDigit(nums[i])]

\* C22: BenfordDetector returns score 0 with confidence 0.3 when it has
\* fewer than min_numbers leading digits; otherwise exactly one tier:
\* MAD > 0.03 or chi-squared > 20.09 -> 35 and 0.85; else MAD > 0.02 or
\* chi-squared > 15.51 -> 20 and 0.75; else MAD > 0.015 -> 10 and 0.6; else
\* score 0.  50 amounts that all lead with 9 give 35 and 0.85; 50 amounts
\* whose digit counts match Benford's distribution give score 0.
C22_BenfordTiers ==
    (lastOp = "analyze" /\ Len(detectors) = 1 /\ detectors[1].name = "benford") =>
        LET n == Len(SeenDigits)
            counts == DigitCounts(SeenDigits)
            mad == MadScaled(counts, n)         \* 9000 n MAD
            r == lastRes.detector_results[1]
        IN /\ IF n < detectors[1].min_numbers
              THEN r.score = 0 /\ r.confidence = 30
              ELSE IF mad > 270 * n \/ ChiSquaredExceeds(counts, n, 2009)
              THEN r.score = 350 /\ r.confidence = 85
              ELSE IF mad > 180 * n \/ ChiSquaredExceeds(counts, n, 1551)
              THEN r.score = 200 /\ r.confidence = 75
              ELSE IF mad > 135 * n
              THEN r.score = 100 /\ r.confidence = 60
              ELSE r.score = 0
           /\ (n >= detectors[1].min_numbers /\ counts = AllNines(50)) =>
                    r.score = 350 /\ r.confidence = 85
           /\ (n >= detectors[1].min_numbers /\ counts = BenfordCounts) => r.score = 0

\* The default detector was given exactly min_numbers = 20 amounts, all
\* leading with 9, and scored 35 with confidence 0.85.
C22_Witness ==
    /\ lastOp = "analyze"
    /\ Len(detectors) = 1
    /\ detectors[1].name = "benford"
    /\ detectors[1].min_numbers = 20
    /\ DigitCounts(SeenDigits) = AllNines(20)
    /\ lastRes.detector_results[1].score = 350
    /\ lastRes.detector_results[1].confidence = 85

\* C29: an engine constructed with an explicit detectors list runs exactly
\* the detectors of that list, in that order, on every analyze() call; for
\* the empty list analyze() runs no detector and returns risk_score 0 with
\* an empty detector_results.
C29_ExplicitListIsWhatRuns ==
    (InCall /\ requested.given) =>
        /\ Len(lastRes.detector_results) = Len(requested.args)
        /\ \A i \in 1..Len(requested.args) :
                lastRes.detector_results[i].detector_name = requested.args[i].kind
        /\ requested.args = <<>> =>
                lastRes.risk_score = 0 /\ lastRes.detector_results = <<>>
\* The rows of the job table for a case, and the status of a job (None for
\* an id the table holds no row of).
JobsOfCase(case_id) == SelectSeq(analysis_jobs, LAMBDA row : row.case_id = case_id)

JobStatus(job_id) == IF HasJob(job_id) THEN StatusOf(job_id) ELSE None

HasCase(case_id) == \E i \in 1..Len(cases) : cases[i].case_id = case_id

\* C27: queue_analysis on a case id the repository does not hold raises
\* CaseNotFound and has no other effect: the call that finds no row leaves
\* both tables as they were, no job row ever names that case, and the call
\* never goes on to create a job, update a case or start a background run.
C27_UnknownCaseHasNoEffect ==
    /\ [](\A k \in 1..Len(tasks) :
            ~HasCase(tasks[k].case_id) =>
                /\ tasks[k].pc = "CaseNotFound"
                /\ tasks[k].job_id = None
                /\ JobsOfCase(tasks[k].case_id) = <<>>)
    /\ [][\A k \in 1..Len(tasks') :
            tasks'[k].pc = "CaseNotFound" =>
                /\ k \in 1..Len(tasks) => tasks'[k] = tasks[k]
                /\ k \notin 1..Len(tasks) =>
                        cases' = cases /\ analysis_jobs' = analysis_jobs]_vars

\* queue_analysis("c9") has raised CaseNotFound while a call for a case the
\* table holds went on to create its job.
C27_Witness ==
    \E k \in 1..Len(tasks) :
        /\ tasks[k].case_id = "c9"
        /\ tasks[k].pc = "CaseNotFound"
        /\ analysis_jobs # <<>>

\* The moves of a job's status that the claim allows.
Forward == {<<"queued", "running">>, <<"running", "completed">>, <<"running", "failed">>}

\* The places of _run_analysis from "await use_case.execute" to its last
\* update of the job.
Executing ==
    {"execute", "write_analyzed", "mark_completed", "reread_case", "write_failed",
     "mark_failed"}

\* C24: the status of an analysis job only moves forward along queued ->
\* running -> completed or queued -> running -> failed: its row is created
\* as 'queued' before its background run starts, is 'running' before and
\* while the analysis use case executes, and once it is 'completed' or
\* 'failed' the row is never updated again.
C24_JobStatusMovesForward ==
    /\ [](\A k \in 1..Len(tasks) :
            /\ tasks[k].pc = "mark_running" => JobStatus(tasks[k].job_id) = "queued"
            /\ tasks[k].pc \in Executing \cup {"crashed"} =>
                    JobStatus(tasks[k].job_id) = "running"
            /\ tasks[k].pc = "done" =>
                    JobStatus(tasks[k].job_id) \in {"completed", "failed"})
    /\ [][/\ Len(analysis_jobs') >= Len(analysis_jobs)
          /\ \A i \in 1..Len(analysis_jobs') :
                IF i \in 1..Len(analysis_jobs)
                THEN /\ analysis_jobs'[i].job_id = analysis_jobs[i].job_id
                     /\ \/ analysis_jobs'[i].status = analysis_jobs[i].status
                        \/ <<analysis_jobs[i].status, analysis_jobs'[i].status>> \in Forward
                     /\ analysis_jobs[i].status \in {"completed", "failed"} =>
                            analysis_jobs'[i] = analysis_jobs[i]
                ELSE analysis_jobs'[i].status = "queued"]_vars

\* Two jobs have run to their ends, one completed and one failed.
C24_Witness ==
    \E i, j \in 1..Len(analysis_jobs) :
        /\ analysis_jobs[i].status = "completed"
        /\ analysis_jobs[j].status = "failed"
        /\ \A k \in 1..Len(tasks) : tasks[k].pc = "done"

CaseOf(case_id) == cases[CHOOSE i \in 1..Len(cases) : cases[i].case_id = case_id]

JobOf(job_id) ==
    analysis_jobs[CHOOSE i \in 1..Len(analysis_jobs) : analysis_jobs[i].job_id = job_id]

\* No other call of queue_analysis was made for the case of the k-th.
AloneOnCase(k) ==
    \A other \in 1..Len(tasks) : other # k => tasks[other].case_id # tasks[k].case_id

\* C26: when the analysis ends with a DomainError, _run_analysis writes the
\* case as 'failed' (explanation and signals.analysis_error the error text)
\* before it marks the job 'failed' with the same text; when it ends normally
\* the case is written as 'analyzed' before the job is marked 'completed'.
\* So a job in a terminal status has no case write of its run ahead of it,
\* and with no other analysis queued for the case the case row shows that
\* write.
C26_CaseIsWrittenBeforeTheJob ==
    \A k \in 1..Len(tasks) :
        JobStatus(tasks[k].job_id) \in {"completed", "failed"} =>
            /\ tasks[k].pc = "done"
            /\ JobStatus(tasks[k].job_id) = "failed" =>
                    /\ JobOf(tasks[k].job_id).error = tasks[k].error
                    /\ tasks[k].signals.analysis_error = tasks[k].error
                    /\ tasks[k].error \in {CaseMissingFileText, CaseExtractionFailedText}
            /\ AloneOnCase(k) =>
                    IF JobStatus(tasks[k].job_id) = "failed"
                    THEN /\ CaseOf(tasks[k].case_id).status = "failed"
                         /\ CaseOf(tasks[k].case_id).explanation = JobOf(tasks[k].job_id).error
                         /\ CaseOf(tasks[k].case_id).signals.analysis_error =
                                JobOf(tasks[k].job_id).error
                    ELSE /\ CaseOf(tasks[k].case_id).status = "analyzed"
                         /\ CaseOf(tasks[k].case_id).signals.computed

\* The analysis of c1 extracted no text: the case is 'failed' and the job is
\* 'failed', both with "Could not extract text"; an analysis queued by
\* another call ended normally.
C26_Witness ==
    \E k, other \in 1..Len(tasks) :
        /\ tasks[k].case_id = "c1"
        /\ JobStatus(tasks[k].job_id) = "failed"
        /\ JobOf(tasks[k].job_id).error = CaseExtractionFailedText
        /\ CaseOf("c1").explanation = CaseExtractionFailedText
        /\ tasks[other].pc = "done"
        /\ JobStatus(tasks[other].job_id) = "completed"

\* C25: after any interleaving of queue_analysis calls and background runs
\* on one case, the case's signals.analysis_job_id is the id of the most
\* recently queued job: analysis_job_id changes only in the step in which a
\* queue_analysis call writes its own new job id, so no background run puts
\* the id it read earlier back over a later one.
C25_OnlyQueueAnalysisSetsTheJobId ==
    [][\A i \in 1..Len(cases) :
          cases'[i].signals.analysis_job_id # cases[i].signals.analysis_job_id =>
              \E k \in 1..Len(tasks) :
                  /\ tasks[k].pc = "update_case"
                  /\ tasks'[k].pc = "mark_running"
                  /\ cases'[i].signals.analysis_job_id = tasks[k].job_id]_vars

\* The background run of the k-th call has been started.
Started(k) == k \in 1..Len(tasks) /\ tasks[k].pc = "mark_running"

CaseStatusOf(case_id) == IF HasCase(case_id) THEN CaseOf(case_id).status ELSE None

\* C23: every analysis job that queue_analysis starts eventually reaches a
\* terminal status ('completed' or 'failed') and its case eventually leaves
\* status 'processing', for every way AnalyzeCase.execute can end: success,
\* a DomainError, or any other exception.
C23_EveryStartedJobEnds ==
    \A k \in 1..MaxQueued :
        Started(k) ~>
            /\ k \in 1..Len(tasks)
            /\ JobStatus(tasks[k].job_id) \in {"completed", "failed"}
            /\ CaseStatusOf(tasks[k].case_id) # "processing"

\* The accepted calls of a key whose time lies in the span [from, from +
\* window_seconds).
AcceptedIn(key, from) ==
    {i \in 1..Len(checks) :
        /\ checks[i].key = key
        /\ checks[i].at = "accepted"
        /\ checks[i].now >= from
        /\ checks[i].now < from + window_seconds}

\* The queue after is the queue before with entries taken from its front,
\* followed by the entries of added.
FrontRemoved(before, after, added) ==
    \E n \in 0..Len(before) : after = SubSeq(before, n + 1, Len(before)) \o added

\* C28: RateLimiter.check accepts at most max_requests calls per key within
\* any span of window_seconds, under any interleaving of concurrent callers:
\* a call rejected with HTTP 429 is not recorded in the key's queue, an
\* accepted call is recorded exactly once, and calls for one key never
\* change the queue of another key.
C28_AtMostMaxRequestsPerWindow ==
    /\ [](\A key \in Keys : \A from \in 0..MaxClock :
            Cardinality(AcceptedIn(key, from)) <= max_requests)
    /\ [][\A i \in 1..Len(checks) :
            (checks[i].at = "lock" /\ checks'[i].at # "lock") =>
                /\ \A key \in Keys \ {checks[i].key} : _hits'[key] = _hits[key]
                /\ checks'[i].at = "rejected" =>
                        FrontRemoved(_hits[checks[i].key], _hits'[checks[i].key], <<>>)
                /\ checks'[i].at = "accepted" =>
                        FrontRemoved(_hits[checks[i].key], _hits'[checks[i].key],
                                     <<checks[i].now>>)]_vars


====
